---------------------------- MODULE Spec2Model ----------------------------
(***************************************************************************)
(* A model of the sanitization / normalization engines of sanitizationjs.  *)
(*                                                                         *)
(* JavaScript strings are sequences of one-character strings, so that the  *)
(* regular expressions of the built-in rules, String.prototype.trim,      *)
(* toLowerCase, Array.prototype.sort and join are modelled by what they    *)
(* do to the characters.  JSON-like values are records [t, v]:             *)
(*   t = "string"    v = the characters                                    *)
(*   t = "number"    v = an integer                                        *)
(*   t = "boolean"   v = a BOOLEAN                                         *)
(*   t = "null", "undefined"   v = <<>>                                    *)
(*   t = "array"     v = the sequence of the elements                      *)
(*   t = "object"    v = the sequence of the entries [k, v] in the order   *)
(*                       Object.entries enumerates them                    *)
(***************************************************************************)
EXTENDS Integers, Sequences, FiniteSets, TLC

-----------------------------------------------------------------------------
(* Characters *)

ASCII ==
  <<" ", "!", "\"", "#", "$", "%", "&", "'", "(", ")", "*", "+", ",", "-", ".", "/", "0", "1", "2", "3", "4", "5", "6", "7", "8", "9", ":", ";", "<", "=", ">", "?", "@", "A", "B", "C", "D", "E", "F", "G", "H", "I", "J", "K", "L", "M", "N", "O", "P", "Q", "R", "S", "T", "U", "V", "W", "X", "Y", "Z", "[", "\\", "]", "^", "_", "backtick", "a", "b", "c", "d", "e", "f", "g", "h", "i", "j", "k", "l", "m", "n", "o", "p", "q", "r", "s", "t", "u", "v", "w", "x", "y", "z", "{", "|", "}", "~">>

\* index of a character in ASCII; its UTF-16 code unit is the index + 31
\* (the grave accent, which a TLA+ string cannot hold, is written "backtick")
CodeOf == [c \in {ASCII[i] : i \in 1..Len(ASCII)} |->
             CHOOSE i \in 1..Len(ASCII) : ASCII[i] = c]

\* Digits, UpperCase and LowerCase are \d, [A-Z] and [a-z] of a JavaScript
\* regular expression; WhiteSpace is \s, and what String.prototype.trim
\* strips: the white space and the line terminators of ECMAScript. A code
\* unit a TLA+ string cannot hold is written by its code point in four
\* hexadecimal digits, a character beyond U+FFFF by its two surrogates
Chars ==
  [ Digits |-> {ASCII[i] : i \in 17..26},
    UpperCase |-> {ASCII[i] : i \in 34..59},
    LowerCase |-> {ASCII[i] : i \in 66..91},
    WhiteSpace |->
      {" ", "\t", "\n", "\r", "\f", "U+000B", "U+00A0", "U+1680", "U+2000", "U+2001",
       "U+2002", "U+2003", "U+2004", "U+2005", "U+2006", "U+2007", "U+2008", "U+2009",
       "U+200A", "U+2028", "U+2029", "U+202F", "U+205F", "U+3000", "U+FEFF"} ]

\* the character classes of the patterns of the rules; WordChars is \w of a
\* JavaScript regular expression
Class ==
  [ WordChars |-> (Chars.Digits \cup Chars.UpperCase \cup Chars.LowerCase) \cup {"_"},
    AlphaNum |-> (Chars.Digits \cup Chars.UpperCase \cup Chars.LowerCase),
    command_chars |-> {";", "&", "|", "backtick", "$", "(", ")", "{", "}", "[", "]"},
    phone_format_chars |-> Chars.WhiteSpace \cup {"-", "(", ")"},
    url_host_chars |-> (Chars.Digits \cup Chars.UpperCase \cup Chars.LowerCase) \cup
      {"-", "@", ":", "%", ".", "_", "+", "~", "#", "="},
    url_tld_chars |-> (Chars.Digits \cup Chars.UpperCase \cup Chars.LowerCase) \cup {"(", ")"},
    url_path_chars |-> (Chars.Digits \cup Chars.UpperCase \cup Chars.LowerCase) \cup
      {"-", "(", ")", "@", ":", "%", "_", "+", ".", "~", "#", "?", "&", "/", "="} ]

IsWord(c) == c \in Class.WordChars
IsSpace(c) == c \in Chars.WhiteSpace

\* Array.prototype.join
RECURSIVE join(_, _)
join(ss, sep) ==
  IF ss = <<>> THEN <<>>
  ELSE IF Len(ss) = 1 THEN ss[1]
  ELSE ss[1] \o sep \o join(Tail(ss), sep)

\* the i flag of a regular expression without the u flag: two code units
\* match when they have the same upper-case mapping, a code unit beyond ASCII
\* never being mapped into ASCII, so A..Z and a..z are the only code units
\* that match a letter of ASCII (canonicalize gives the lower-case one, the
\* patterns being written in lower case)
canonicalize(c) == IF c \in Chars.UpperCase THEN ASCII[CodeOf[c] + 32] ELSE c

\* String.prototype.charCodeAt of a string of one code unit
charCodeAt(c) ==
  LET digit(k) == CHOOSE d \in 0..15 : SubSeq("0123456789ABCDEF", d + 1, d + 1) = SubSeq(c, k, k)
  IN  CASE c \in DOMAIN CodeOf -> CodeOf[c] + 31
        [] c = "\t" -> 9
        [] c = "\n" -> 10
        [] c = "\f" -> 12
        [] c = "\r" -> 13
        [] OTHER -> 4096 * digit(3) + 256 * digit(4) + 16 * digit(5) + digit(6)

\* String.fromCharCode
fromCharCode(n) ==
  LET digit(d) == SubSeq("0123456789ABCDEF", d + 1, d + 1)
  IN  CASE n >= 32 /\ n <= 126 -> ASCII[n - 31]
        [] n = 9 -> "\t"
        [] n = 10 -> "\n"
        [] n = 12 -> "\f"
        [] n = 13 -> "\r"
        [] OTHER -> "U+" \o digit(n \div 4096) \o digit((n \div 256) % 16)
                      \o digit((n \div 16) % 16) \o digit(n % 16)

\* The character data String.prototype.toLowerCase works from (the Unicode
\* Character Database, version 17.0: the simple lower-case mappings and the
\* derived properties Cased and Case_Ignorable), by code point, each code
\* point written in six hexadecimal digits:
\*   Lower          <<first, last, step, target>>: the code points first,
\*                  first + step, ... last have a lower-case mapping of one
\*                  code point, that of first being target and the others
\*                  as far from it as they are from first
\*   Cased          <<first, last>>: the code points first .. last are Cased
\*   CaseIgnorable  <<first, last>>: they are Case_Ignorable
CaseData ==
  LET digit(c) == CHOOSE d \in 0..15 : SubSeq("0123456789ABCDEF", d + 1, d + 1) = c
      \* the number written by the six digits of s after position i
      number(s, i) == 1048576 * digit(SubSeq(s, i + 1, i + 1)) + 65536 * digit(SubSeq(s, i + 2, i + 2))
                        + 4096 * digit(SubSeq(s, i + 3, i + 3)) + 256 * digit(SubSeq(s, i + 4, i + 4))
                        + 16 * digit(SubSeq(s, i + 5, i + 5)) + digit(SubSeq(s, i + 6, i + 6))
      \* the numbers written in s, taken w at a time
      rows(s, w) == {[k \in 1..w |-> number(s, 6 * (w * r + k - 1))] : r \in 0..((Len(s) \div (6 * w)) - 1)}
  IN  [ Lower |->
          rows("00004100005A0000010000610000C00000D60000010000E00000D80000DE0000010000F800010000012E000002000101" \o
          "00013200013600000200013300013900014700000200013A00014A00017600000200014B0001780001780000010000FF" \o
          "00017900017D00000200017A000181000181000001000253000182000184000002000183000186000186000001000254" \o
          "00018700018700000100018800018900018A00000100025600018B00018B00000100018C00018E00018E0000010001DD" \o
          "00018F00018F00000100025900019000019000000100025B000191000191000001000192000193000193000001000260" \o
          "000194000194000001000263000196000196000001000269000197000197000001000268000198000198000001000199" \o
          "00019C00019C00000100026F00019D00019D00000100027200019F00019F0000010002750001A00001A40000020001A1" \o
          "0001A60001A60000010002800001A70001A70000010001A80001A90001A90000010002830001AC0001AC0000010001AD" \o
          "0001AE0001AE0000010002880001AF0001AF0000010001B00001B10001B200000100028A0001B30001B50000020001B4" \o
          "0001B70001B70000010002920001B80001B80000010001B90001BC0001BC0000010001BD0001C40001C40000010001C6" \o
          "0001C50001C50000010001C60001C70001C70000010001C90001C80001C80000010001C90001CA0001CA0000010001CC" \o
          "0001CB0001DB0000020001CC0001DE0001EE0000020001DF0001F10001F10000010001F30001F20001F40000020001F3" \o
          "0001F60001F60000010001950001F70001F70000010001BF0001F800021E0000020001F900022000022000000100019E" \o
          "00022200023200000200022300023A00023A000001002C6500023B00023B00000100023C00023D00023D00000100019A" \o
          "00023E00023E000001002C66000241000241000001000242000243000243000001000180000244000244000001000289" \o
          "00024500024500000100028C00024600024E000002000247000370000372000002000371000376000376000001000377" \o
          "00037F00037F0000010003F30003860003860000010003AC00038800038A0000010003AD00038C00038C0000010003CC" \o
          "00038E00038F0000010003CD0003910003A10000010003B10003A30003AB0000010003C30003CF0003CF0000010003D7" \o
          "0003D80003EE0000020003D90003F40003F40000010003B80003F70003F70000010003F80003F90003F90000010003F2" \o
          "0003FA0003FA0000010003FB0003FD0003FF00000100037B00040000040F00000100045000041000042F000001000430" \o
          "00046000048000000200046100048A0004BE00000200048B0004C00004C00000010004CF0004C10004CD0000020004C2" \o
          "0004D000052E0000020004D10005310005560000010005610010A00010C5000001002D000010C70010C7000001002D27" \o
          "0010CD0010CD000001002D2D0013A00013EF00000100AB700013F00013F50000010013F8001C89001C89000001001C8A" \o
          "001C90001CBA0000010010D0001CBD001CBF0000010010FD001E00001E94000002001E01001E9E001E9E0000010000DF" \o
          "001EA0001EFE000002001EA1001F08001F0F000001001F00001F18001F1D000001001F10001F28001F2F000001001F20" \o
          "001F38001F3F000001001F30001F48001F4D000001001F40001F59001F5F000002001F51001F68001F6F000001001F60" \o
          "001F88001F8F000001001F80001F98001F9F000001001F90001FA8001FAF000001001FA0001FB8001FB9000001001FB0" \o
          "001FBA001FBB000001001F70001FBC001FBC000001001FB3001FC8001FCB000001001F72001FCC001FCC000001001FC3" \o
          "001FD8001FD9000001001FD0001FDA001FDB000001001F76001FE8001FE9000001001FE0001FEA001FEB000001001F7A" \o
          "001FEC001FEC000001001FE5001FF8001FF9000001001F78001FFA001FFB000001001F7C001FFC001FFC000001001FF3" \o
          "0021260021260000010003C900212A00212A00000100006B00212B00212B0000010000E500213200213200000100214E" \o
          "00216000216F0000010021700021830021830000010021840024B60024CF0000010024D0002C00002C2F000001002C30" \o
          "002C60002C60000001002C61002C62002C6200000100026B002C63002C63000001001D7D002C64002C6400000100027D" \o
          "002C67002C6B000002002C68002C6D002C6D000001000251002C6E002C6E000001000271002C6F002C6F000001000250" \o
          "002C70002C70000001000252002C72002C72000001002C73002C75002C75000001002C76002C7E002C7F00000100023F" \o
          "002C80002CE2000002002C81002CEB002CED000002002CEC002CF2002CF2000001002CF300A64000A66C00000200A641" \o
          "00A68000A69A00000200A68100A72200A72E00000200A72300A73200A76E00000200A73300A77900A77B00000200A77A" \o
          "00A77D00A77D000001001D7900A77E00A78600000200A77F00A78B00A78B00000100A78C00A78D00A78D000001000265" \o
          "00A79000A79200000200A79100A79600A7A800000200A79700A7AA00A7AA00000100026600A7AB00A7AB00000100025C" \o
          "00A7AC00A7AC00000100026100A7AD00A7AD00000100026C00A7AE00A7AE00000100026A00A7B000A7B000000100029E" \o
          "00A7B100A7B100000100028700A7B200A7B200000100029D00A7B300A7B300000100AB5300A7B400A7C200000200A7B5" \o
          "00A7C400A7C400000100A79400A7C500A7C500000100028200A7C600A7C6000001001D8E00A7C700A7C900000200A7C8" \o
          "00A7CB00A7CB00000100026400A7CC00A7DA00000200A7CD00A7DC00A7DC00000100019B00A7F500A7F500000100A7F6" \o
          "00FF2100FF3A00000100FF410104000104270000010104280104B00104D30000010104D8010570010594000002010597" \o
          "01057101057A00000101059801057C01058A0000010105A301058C0105920000010105B30105940105950000010105BB" \o
          "010C80010CB2000001010CC0010D50010D65000001010D700118A00118BF0000010118C0016E40016E5F000001016E60" \o
          "016EA0016EB8000001016EBB01E90001E92100000101E922", 4),
        Cased |->
          rows("00004100005A00006100007A0000AA0000AA0000B50000B50000BA0000BA0000C00000D60000D80000F60000F80001BA" \o
          "0001BC0001BF0001C40002930002960002B80002C00002C10002E00002E4000345000345000370000373000376000377" \o
          "00037A00037D00037F00037F00038600038600038800038A00038C00038C00038E0003A10003A30003F50003F7000481" \o
          "00048A00052F0005310005560005600005880010A00010C50010C70010C70010CD0010CD0010D00010FA0010FC0010FF" \o
          "0013A00013F50013F80013FD001C80001C8A001C90001CBA001CBD001CBF001D00001DBF001E00001F15001F18001F1D" \o
          "001F20001F45001F48001F4D001F50001F57001F59001F59001F5B001F5B001F5D001F5D001F5F001F7D001F80001FB4" \o
          "001FB6001FBC001FBE001FBE001FC2001FC4001FC6001FCC001FD0001FD3001FD6001FDB001FE0001FEC001FF2001FF4" \o
          "001FF6001FFC00207100207100207F00207F00209000209C00210200210200210700210700210A002113002115002115" \o
          "00211900211D00212400212400212600212600212800212800212A00212D00212F00213400213900213900213C00213F" \o
          "00214500214900214E00214E00216000217F0021830021840024B60024E9002C00002CE4002CEB002CEE002CF2002CF3" \o
          "002D00002D25002D27002D27002D2D002D2D00A64000A66D00A68000A69D00A72200A78700A78B00A78E00A79000A7DC" \o
          "00A7F100A7F600A7F800A7FA00AB3000AB5A00AB5C00AB6900AB7000ABBF00FB0000FB0600FB1300FB1700FF2100FF3A" \o
          "00FF4100FF5A01040001044F0104B00104D30104D80104FB01057001057A01057C01058A01058C010592010594010595" \o
          "0105970105A10105A30105B10105B30105B90105BB0105BC0107800107800107830107850107870107B00107B20107BA" \o
          "010C80010CB2010CC0010CF2010D50010D65010D70010D850118A00118DF016E40016E7F016EA0016EB8016EBB016ED3" \o
          "01D40001D45401D45601D49C01D49E01D49F01D4A201D4A201D4A501D4A601D4A901D4AC01D4AE01D4B901D4BB01D4BB" \o
          "01D4BD01D4C301D4C501D50501D50701D50A01D50D01D51401D51601D51C01D51E01D53901D53B01D53E01D54001D544" \o
          "01D54601D54601D54A01D55001D55201D6A501D6A801D6C001D6C201D6DA01D6DC01D6FA01D6FC01D71401D71601D734" \o
          "01D73601D74E01D75001D76E01D77001D78801D78A01D7A801D7AA01D7C201D7C401D7CB01DF0001DF0901DF0B01DF1E" \o
          "01DF2501DF2A01E03001E06D01E90001E94301F13001F14901F15001F16901F17001F189", 2),
        CaseIgnorable |->
          rows("00002700002700002E00002E00003A00003A00005E00005E0000600000600000A80000A80000AD0000AD0000AF0000AF" \o
          "0000B40000B40000B70000B80002B000036F00037400037500037A00037A000384000385000387000387000483000489" \o
          "00055900055900055F00055F0005910005BD0005BF0005BF0005C10005C20005C40005C50005C70005C70005F40005F4" \o
          "00060000060500061000061A00061C00061C00064000064000064B00065F0006700006700006D60006DD0006DF0006E8" \o
          "0006EA0006ED00070F00070F00071100071100073000074A0007A60007B00007EB0007F50007FA0007FA0007FD0007FD" \o
          "00081600082D00085900085B00088800088800089000089100089700089F0008C900090200093A00093A00093C00093C" \o
          "00094100094800094D00094D0009510009570009620009630009710009710009810009810009BC0009BC0009C10009C4" \o
          "0009CD0009CD0009E20009E30009FE0009FE000A01000A02000A3C000A3C000A41000A42000A47000A48000A4B000A4D" \o
          "000A51000A51000A70000A71000A75000A75000A81000A82000ABC000ABC000AC1000AC5000AC7000AC8000ACD000ACD" \o
          "000AE2000AE3000AFA000AFF000B01000B01000B3C000B3C000B3F000B3F000B41000B44000B4D000B4D000B55000B56" \o
          "000B62000B63000B82000B82000BC0000BC0000BCD000BCD000C00000C00000C04000C04000C3C000C3C000C3E000C40" \o
          "000C46000C48000C4A000C4D000C55000C56000C62000C63000C81000C81000CBC000CBC000CBF000CBF000CC6000CC6" \o
          "000CCC000CCD000CE2000CE3000D00000D01000D3B000D3C000D41000D44000D4D000D4D000D62000D63000D81000D81" \o
          "000DCA000DCA000DD2000DD4000DD6000DD6000E31000E31000E34000E3A000E46000E4E000EB1000EB1000EB4000EBC" \o
          "000EC6000EC6000EC8000ECE000F18000F19000F35000F35000F37000F37000F39000F39000F71000F7E000F80000F84" \o
          "000F86000F87000F8D000F97000F99000FBC000FC6000FC600102D00103000103200103700103900103A00103D00103E" \o
          "00105800105900105E00106000107100107400108200108200108500108600108D00108D00109D00109D0010FC0010FC" \o
          "00135D00135F0017120017140017320017330017520017530017720017730017B40017B50017B70017BD0017C60017C6" \o
          "0017C90017D30017D70017D70017DD0017DD00180B00180F0018430018430018850018860018A90018A9001920001922" \o
          "00192700192800193200193200193900193B001A17001A18001A1B001A1B001A56001A56001A58001A5E001A60001A60" \o
          "001A62001A62001A65001A6C001A73001A7C001A7F001A7F001AA7001AA7001AB0001ADD001AE0001AEB001B00001B03" \o
          "001B34001B34001B36001B3A001B3C001B3C001B42001B42001B6B001B73001B80001B81001BA2001BA5001BA8001BA9" \o
          "001BAB001BAD001BE6001BE6001BE8001BE9001BED001BED001BEF001BF1001C2C001C33001C36001C37001C78001C7D" \o
          "001CD0001CD2001CD4001CE0001CE2001CE8001CED001CED001CF4001CF4001CF8001CF9001D2C001D6A001D78001D78" \o
          "001D9B001DFF001FBD001FBD001FBF001FC1001FCD001FCF001FDD001FDF001FED001FEF001FFD001FFE00200B00200F" \o
          "00201800201900202400202400202700202700202A00202E00206000206400206600206F00207100207100207F00207F" \o
          "00209000209C0020D00020F0002C7C002C7D002CEF002CF1002D6F002D6F002D7F002D7F002DE0002DFF002E2F002E2F" \o
          "00300500300500302A00302D00303100303500303B00303B00309900309E0030FC0030FE00A01500A01500A4F800A4FD" \o
          "00A60C00A60C00A66F00A67200A67400A67D00A67F00A67F00A69C00A69F00A6F000A6F100A70000A72100A77000A770" \o
          "00A78800A78A00A7F100A7F400A7F800A7F900A80200A80200A80600A80600A80B00A80B00A82500A82600A82C00A82C" \o
          "00A8C400A8C500A8E000A8F100A8FF00A8FF00A92600A92D00A94700A95100A98000A98200A9B300A9B300A9B600A9B9" \o
          "00A9BC00A9BD00A9CF00A9CF00A9E500A9E600AA2900AA2E00AA3100AA3200AA3500AA3600AA4300AA4300AA4C00AA4C" \o
          "00AA7000AA7000AA7C00AA7C00AAB000AAB000AAB200AAB400AAB700AAB800AABE00AABF00AAC100AAC100AADD00AADD" \o
          "00AAEC00AAED00AAF300AAF400AAF600AAF600AB5B00AB5F00AB6900AB6B00ABE500ABE500ABE800ABE800ABED00ABED" \o
          "00FB1E00FB1E00FBB200FBC200FE0000FE0F00FE1300FE1300FE2000FE2F00FE5200FE5200FE5500FE5500FEFF00FEFF" \o
          "00FF0700FF0700FF0E00FF0E00FF1A00FF1A00FF3E00FF3E00FF4000FF4000FF7000FF7000FF9E00FF9F00FFE300FFE3" \o
          "00FFF900FFFB0101FD0101FD0102E00102E001037601037A0107800107850107870107B00107B20107BA010A01010A03" \o
          "010A05010A06010A0C010A0F010A38010A3A010A3F010A3F010AE5010AE6010D24010D27010D4E010D4E010D69010D6D" \o
          "010D6F010D6F010EAB010EAC010EC5010EC5010EFA010EFF010F46010F50010F82010F85011001011001011038011046" \o
          "01107001107001107301107401107F0110810110B30110B60110B90110BA0110BD0110BD0110C20110C20110CD0110CD" \o
          "01110001110201112701112B01112D0111340111730111730111800111810111B60111BE0111C90111CC0111CF0111CF" \o
          "01122F01123101123401123401123601123701123E01123E0112410112410112DF0112DF0112E30112EA011300011301" \o
          "01133B01133C01134001134001136601136C0113700113740113BB0113C00113CE0113CE0113D00113D00113D20113D2" \o
          "0113E10113E201143801143F01144201144401144601144601145E01145E0114B30114B80114BA0114BA0114BF0114C0" \o
          "0114C20114C30115B20115B50115BC0115BD0115BF0115C00115DC0115DD01163301163A01163D01163D01163F011640" \o
          "0116AB0116AB0116AD0116AD0116B00116B50116B70116B701171D01171D01171F01171F01172201172501172701172B" \o
          "01182F01183701183901183A01193B01193C01193E01193E0119430119430119D40119D70119DA0119DB0119E00119E0" \o
          "011A01011A0A011A33011A38011A3B011A3E011A47011A47011A51011A56011A59011A5B011A8A011A96011A98011A99" \o
          "011B60011B60011B62011B64011B66011B66011C30011C36011C38011C3D011C3F011C3F011C92011CA7011CAA011CB0" \o
          "011CB2011CB3011CB5011CB6011D31011D36011D3A011D3A011D3C011D3D011D3F011D45011D47011D47011D90011D91" \o
          "011D95011D95011D97011D97011DD9011DD9011EF3011EF4011F00011F01011F36011F3A011F40011F40011F42011F42" \o
          "011F5A011F5A01343001344001344701345501611E01612901612D01612F016AF0016AF4016B30016B36016B40016B43" \o
          "016D40016D42016D6B016D6C016F4F016F4F016F8F016F9F016FE0016FE1016FE3016FE4016FF2016FF301AFF001AFF3" \o
          "01AFF501AFFB01AFFD01AFFE01BC9D01BC9E01BCA001BCA301CF0001CF2D01CF3001CF4601D16701D16901D17301D182" \o
          "01D18501D18B01D1AA01D1AD01D24201D24401DA0001DA3601DA3B01DA6C01DA7501DA7501DA8401DA8401DA9B01DA9F" \o
          "01DAA101DAAF01E00001E00601E00801E01801E01B01E02101E02301E02401E02601E02A01E03001E06D01E08F01E08F" \o
          "01E13001E13D01E2AE01E2AE01E2EC01E2EF01E4EB01E4EF01E5EE01E5EF01E6E301E6E301E6E601E6E601E6EE01E6EF" \o
          "01E6F501E6F501E6FF01E6FF01E8D001E8D601E94401E94B01F3FB01F3FF0E00010E00010E00200E007F0E01000E01EF", 2) ]

\* String.prototype.toLowerCase: every character by its lower-case mapping
\* (U+0130 gives two code units, i and the combining dot above), a capital
\* sigma (U+03A3) by the final sigma when it ends a word: before it, past any
\* case-ignorable characters, stands a cased letter, and after it, past any
\* case-ignorable characters, stands none. A string of ASCII is the case
\* where only A..Z change.
toLowerCase(s) ==
  LET \* the code point of the character that starts at each code unit of u,
      \* -1 at the second code unit of a surrogate pair
      points(u) ==
        [i \in DOMAIN u |->
           IF u[i] \in 55296..56319 /\ i < Len(u) /\ u[i + 1] \in 56320..57343
           THEN 65536 + 1024 * (u[i] - 55296) + (u[i + 1] - 56320)
           ELSE IF u[i] \in 56320..57343 /\ i > 1 /\ u[i - 1] \in 55296..56319
           THEN -1
           ELSE u[i]]
      within(n, ranges) == \E r \in ranges : r[1] <= n /\ n <= r[2]
      \* what each character is to the final sigma rule (a character both
      \* cased and case-ignorable is passed over)
      kinds(p, data) ==
        [i \in DOMAIN p |->
           IF p[i] = -1 \/ within(p[i], data.CaseIgnorable) THEN "ignorable"
           ELSE IF within(p[i], data.Cased) THEN "cased"
           ELSE "other"]
      finalSigma(k, i) ==
        /\ \E j \in 1..(i - 1) : k[j] = "cased" /\ \A m \in (j + 1)..(i - 1) : k[m] = "ignorable"
        /\ ~\E j \in (i + 1)..Len(k) : k[j] = "cased" /\ \A m \in (i + 1)..(j - 1) : k[m] = "ignorable"
      mapping(n, table) ==
        LET hit == {r \in table : r[1] <= n /\ n <= r[2] /\ (n - r[1]) % r[3] = 0}
        IN  IF hit = {} THEN n ELSE n + (CHOOSE d \in {r[4] - r[1] : r \in hit} : TRUE)
      codeUnits(n) ==
        IF n < 65536 THEN <<n>> ELSE <<55296 + ((n - 65536) \div 1024), 56320 + ((n - 65536) % 1024)>>
      \* the code units each character gives
      lowered(p, k, data) ==
        [i \in DOMAIN p |->
           IF p[i] = -1 THEN <<>>
           ELSE IF p[i] = 931 THEN IF finalSigma(k, i) THEN <<962>> ELSE <<963>>
           ELSE IF p[i] = 304 THEN <<105, 775>>
           ELSE codeUnits(mapping(p[i], data.Lower))]
      lower(p, data) == join(lowered(p, kinds(p, data), data), <<>>)
      string(u) == [j \in DOMAIN u |-> fromCharCode(u[j])]
  IN  IF \A i \in DOMAIN s : s[i] \in DOMAIN CodeOf
      THEN [i \in DOMAIN s |-> canonicalize(s[i])]
      ELSE string(lower(points([i \in DOMAIN s |-> charCodeAt(s[i])]), CaseData))

\* the pattern p occurs in s at position i
StartsWithAt(s, i, p) ==
  /\ i >= 1
  /\ i + Len(p) - 1 <= Len(s)
  /\ \A k \in 1..Len(p) : s[i + k - 1] = p[k]

\* the same under the i flag of a regular expression (p is given in lower case)
StartsWithAtCI(s, i, p) ==
  /\ i >= 1
  /\ i + Len(p) - 1 <= Len(s)
  /\ \A k \in 1..Len(p) : canonicalize(s[i + k - 1]) = p[k]

\* String.prototype.includes
includes(s, p) == \E i \in 1..(Len(s) + 1) : StartsWithAt(s, i, p)

includesCI(s, p) == \E i \in 1..(Len(s) + 1) : StartsWithAtCI(s, i, p)

Min(S) == CHOOSE x \in S : \A y \in S : x <= y

\* String.prototype.trim
trim(s) ==
  LET keep == {i \in 1..Len(s) : ~IsSpace(s[i])}
  IN  IF keep = {} THEN <<>>
      ELSE SubSeq(s, Min(keep), CHOOSE x \in keep : \A y \in keep : y <= x)

\* a word boundary (\b) between position i - 1 and position i of s
WordBoundary(s, i) ==
  LET before == i - 1 >= 1 /\ i - 1 <= Len(s) /\ IsWord(s[i - 1])
      after == i >= 1 /\ i <= Len(s) /\ IsWord(s[i])
  IN  before # after

\* s < t in the order of Array.prototype.sort without a comparator:
\* by UTF-16 code units, a proper prefix first
RECURSIVE StrLess(_, _)
StrLess(s, t) ==
  IF t = <<>> THEN FALSE
  ELSE IF s = <<>> THEN TRUE
  ELSE IF Head(s) = Head(t) THEN StrLess(Tail(s), Tail(t))
  ELSE CodeOf[Head(s)] < CodeOf[Head(t)]

\* Array.prototype.sort without a comparator (stable)
RECURSIVE sort(_)
sort(ss) ==
  IF ss = <<>> THEN <<>>
  ELSE LET rest == sort(Tail(ss))
           x == Head(ss)
           \* x goes before the first element of rest that is not smaller than it
           n == Cardinality({i \in 1..Len(rest) : StrLess(rest[i], x)})
       IN  SubSeq(rest, 1, n) \o <<x>> \o SubSeq(rest, n + 1, Len(rest))

-----------------------------------------------------------------------------
(* The built-in rules: src/src/core/sanitization-rules.ts *)

\* the literals of the patterns of the built-in rules
L ==
  [ script_open |-> <<"<", "s", "c", "r", "i", "p", "t">>,
    script_close |-> <<"<", "/", "s", "c", "r", "i", "p", "t", ">">>,
    dotdot_slash |-> <<".", ".", "/">>,
    dotdot_backslash |-> <<".", ".", "\\">>,
    dotdot_2f |-> <<".", ".", "%", "2", "f">>,
    dotdot_5c |-> <<".", ".", "%", "5", "c">>,
    http |-> <<"h", "t", "t", "p">>,
    colon_slash_slash |-> <<":", "/", "/">>,
    www |-> <<"w", "w", "w", ".">>,
    xss_words |->
      << <<"j", "a", "v", "a", "s", "c", "r", "i", "p", "t", ":">>,
         <<"v", "b", "s", "c", "r", "i", "p", "t", ":">>,
         <<"o", "n", "l", "o", "a", "d">>,
         <<"o", "n", "e", "r", "r", "o", "r">>,
         <<"o", "n", "c", "l", "i", "c", "k">>,
         <<"o", "n", "m", "o", "u", "s", "e", "o", "v", "e", "r">> >>,
    sql_words |->
      << <<"a", "l", "t", "e", "r">>,
         <<"c", "r", "e", "a", "t", "e">>,
         <<"d", "e", "l", "e", "t", "e">>,
         <<"d", "r", "o", "p">>,
         <<"e", "x", "e", "c">>,
         <<"e", "x", "e", "c", "u", "t", "e">>,
         <<"i", "n", "s", "e", "r", "t">>,
         <<"s", "e", "l", "e", "c", "t">>,
         <<"u", "n", "i", "o", "n">>,
         <<"u", "p", "d", "a", "t", "e">> >> ]

\* the names of the built-in rules
N ==
  [ html |-> <<"h", "t", "m", "l">>,
    script |-> <<"s", "c", "r", "i", "p", "t">>,
    sql |-> <<"s", "q", "l">>,
    xss |-> <<"x", "s", "s">>,
    trim |-> <<"t", "r", "i", "m">>,
    email_normalize |-> <<"e", "m", "a", "i", "l", "-", "n", "o", "r", "m", "a", "l", "i", "z", "e">>,
    phone_normalize |-> <<"p", "h", "o", "n", "e", "-", "n", "o", "r", "m", "a", "l", "i", "z", "e">>,
    url_validate |-> <<"u", "r", "l", "-", "v", "a", "l", "i", "d", "a", "t", "e">>,
    path_traversal |-> <<"p", "a", "t", "h", "-", "t", "r", "a", "v", "e", "r", "s", "a", "l">>,
    command_injection |-> <<"c", "o", "m", "m", "a", "n", "d", "-", "i", "n", "j", "e", "c", "t", "i", "o", "n">> ]

\* the enum SecurityViolationType
SecurityViolationType ==
  [ XSS |-> <<"X", "S", "S">>,
    SQL_INJECTION |-> <<"S", "Q", "L", "_", "I", "N", "J", "E", "C", "T", "I", "O", "N">>,
    HTML_INJECTION |-> <<"H", "T", "M", "L", "_", "I", "N", "J", "E", "C", "T", "I", "O", "N">>,
    SCRIPT_INJECTION |-> <<"S", "C", "R", "I", "P", "T", "_", "I", "N", "J", "E", "C", "T", "I", "O", "N">>,
    PATH_TRAVERSAL |-> <<"P", "A", "T", "H", "_", "T", "R", "A", "V", "E", "R", "S", "A", "L">>,
    COMMAND_INJECTION |-> <<"C", "O", "M", "M", "A", "N", "D", "_", "I", "N", "J", "E", "C", "T", "I", "O", "N">> ]

\* a variant of the html pattern: /<[^>]+>/, which misses the empty tag "<>"
html_matchEnd_plus(s, i) ==
  IF s[i] = "<" /\ \E j \in (i + 2)..Len(s) : s[j] = ">" /\ s[i + 1] # ">"
  THEN Min({j \in (i + 2)..Len(s) : s[j] = ">"})
  ELSE 0

\* a variant of the script pattern: /<script\b[^<]*<\/script>/i, which misses a
\* script element with a "<" in its text
script_matchEnd_flat(s, i) ==
  LET close == {j \in (i + 7)..Len(s) : StartsWithAtCI(s, j, L.script_close)}
  IN  IF /\ StartsWithAtCI(s, i, L.script_open)
         /\ WordBoundary(s, i + 7)
         /\ close # {}
         /\ \A j \in (i + 7)..(Min(close) - 1) : s[j] # "<"
      THEN Min(close) + Len(L.script_close) - 1
      ELSE 0

\* the end of the match of the rule's pattern that starts at position i of s,
\* or 0 when the pattern does not match there
html_matchEnd(s, i) ==
  \* /<[^>]*>/
  IF s[i] = "<" /\ \E j \in (i + 1)..Len(s) : s[j] = ">"
  THEN Min({j \in (i + 1)..Len(s) : s[j] = ">"})
  ELSE 0

script_matchEnd(s, i) ==
  \* /<script\b[^<]*(?:(?!<\/script>)<[^<]*)*<\/script>/i : the text runs to the
  \* first closing tag, since every "<" before the end must not start one
  LET close == {j \in (i + 7)..Len(s) : StartsWithAtCI(s, j, L.script_close)}
  IN  IF /\ StartsWithAtCI(s, i, L.script_open)
         /\ WordBoundary(s, i + 7)
         /\ close # {}
      THEN Min(close) + Len(L.script_close) - 1
      ELSE 0

xss_matchEnd(s, i) ==
  \* /(javascript:|vbscript:|onload|onerror|onclick|onmouseover)/i
  LET hit == {k \in 1..Len(L.xss_words) : StartsWithAtCI(s, i, L.xss_words[k])}
  IN  IF hit = {} THEN 0 ELSE i + Len(L.xss_words[Min(hit)]) - 1

command_matchEnd(s, i) ==
  \* /[;&|`$(){}[\]]/
  IF s[i] \in Class.command_chars THEN i ELSE 0

phone_matchEnd(s, i) ==
  \* /[\s\-\(\)]/
  IF s[i] \in Class.phone_format_chars THEN i ELSE 0

matchEnd(pattern, s, i) ==
  CASE pattern = "html" -> html_matchEnd(s, i)
    [] pattern = "script" -> script_matchEnd(s, i)
    [] pattern = "xss" -> xss_matchEnd(s, i)
    [] pattern = "command-injection" -> command_matchEnd(s, i)
    [] pattern = "phone-normalize" -> phone_matchEnd(s, i)

\* value.replace(/pattern/g, '') from position i on: the matches are found
\* left to right in the original string and the result is not scanned again
RECURSIVE replaceAllFrom(_, _, _)
replaceAllAfter(pattern, s, i, e) ==
  \* e is the end of the match at i, 0 when there is none
  IF e > 0 THEN replaceAllFrom(pattern, s, e + 1)
  ELSE <<s[i]>> \o replaceAllFrom(pattern, s, i + 1)

replaceAllFrom(pattern, s, i) ==
  IF i > Len(s) THEN <<>>
  ELSE replaceAllAfter(pattern, s, i, matchEnd(pattern, s, i))

\* /pattern/.test(value)
test(pattern, s) == \E i \in 1..Len(s) : matchEnd(pattern, s, i) > 0

html_transform(value) == replaceAllFrom("html", value, 1)
html_validate(value) == ~test("html", value)

script_transform(value) == replaceAllFrom("script", value, 1)
script_validate(value) == ~test("script", value)

sql_validate(value) ==
  \* !/(\b(ALTER|CREATE|DELETE|DROP|EXEC(UTE)?|INSERT|SELECT|UNION|UPDATE)\b)/gi.test
  ~ \E i \in 1..Len(value) : \E k \in 1..Len(L.sql_words) :
       /\ StartsWithAtCI(value, i, L.sql_words[k])
       /\ WordBoundary(value, i)
       /\ WordBoundary(value, i + Len(L.sql_words[k]))

xss_transform(value) == replaceAllFrom("xss", value, 1)
xss_validate(value) == ~test("xss", value)

trim_transform(value) == trim(value)
trim_validate(value) == TRUE

email_transform(value) == trim(toLowerCase(value))

email_validate(value) ==
  \* /^[^\s@]+@[^\s@]+\.[^\s@]+$/.test
  LET ok(a, b) == a <= b /\ \A k \in a..b : ~IsSpace(value[k]) /\ value[k] # "@"
  IN  \E at \in 1..Len(value) : \E dot \in (at + 1)..Len(value) :
        /\ value[at] = "@"
        /\ value[dot] = "."
        /\ ok(1, at - 1)
        /\ ok(at + 1, dot - 1)
        /\ ok(dot + 1, Len(value))

phone_transform(value) == replaceAllFrom("phone-normalize", value, 1)

phone_validate(value) ==
  \* /^\+?[\d]+$/.test(value.replace(/[\s\-\(\)]/g, ''))
  LET v == phone_transform(value)
      from == IF v # <<>> /\ v[1] = "+" THEN 2 ELSE 1
  IN  from <= Len(v) /\ \A k \in from..Len(v) : v[k] \in Chars.Digits

url_validate(value) ==
  \* /^https?:\/\/(www\.)?[-a-zA-Z0-9@:%._\+~#=]{1,256}\.[a-zA-Z0-9()]{1,6}\b
  \*  ([-a-zA-Z0-9()@:%_\+.~#?&//=]*)$/.test
  LET n == Len(value)
      afterScheme == IF StartsWithAt(value, 5, <<"s">>) THEN 6 ELSE 5
      afterSlashes == afterScheme + 3
      starts == {afterSlashes} \cup
                (IF StartsWithAt(value, afterSlashes, L.www)
                 THEN {afterSlashes + 4} ELSE {})
  IN  /\ StartsWithAt(value, 1, L.http)
      /\ StartsWithAt(value, afterScheme, L.colon_slash_slash)
      /\ \E p \in starts : \E dot \in (p + 1)..n : \E q \in (dot + 2)..(n + 1) :
           \* host = value[p .. dot-1], tld = value[dot+1 .. q-1], path = the rest
           /\ dot - p <= 256
           /\ \A k \in p..(dot - 1) : value[k] \in Class.url_host_chars
           /\ value[dot] = "."
           /\ q - dot - 1 <= 6
           /\ \A k \in (dot + 1)..(q - 1) : value[k] \in Class.url_tld_chars
           /\ WordBoundary(value, q)
           /\ \A k \in q..n : value[k] \in Class.url_path_chars

path_validate(value) ==
  \* !/(\.\.[\/\\]|\.\.%2f|\.\.%5c)/gi.test
  ~ \/ includesCI(value, L.dotdot_slash)
    \/ includesCI(value, L.dotdot_backslash)
    \/ includesCI(value, L.dotdot_2f)
    \/ includesCI(value, L.dotdot_5c)

command_transform(value) == replaceAllFrom("command-injection", value, 1)
command_validate(value) == ~test("command-injection", value)

-----------------------------------------------------------------------------
(* Rules and the rule tables: src/src/core/sanitization-rules.ts *)

\* rule.transform(value); the rule's function is named by the rule it was
\* written for, "none" when the rule has none
W_test == <<"t", "e", "s", "t">>
W_TEST == <<"T", "E", "S", "T">>

test_matchEnd(s, i) ==
  \* /test/i
  IF StartsWithAtCI(s, i, W_test) THEN i + Len(W_test) - 1 ELSE 0

\* value.replace(/test/gi, 'TEST'), the custom rule of the engine's tests
RECURSIVE test_transformFrom(_, _)
test_transformAfter(s, i, e) ==
  IF e > 0 THEN W_TEST \o test_transformFrom(s, e + 1)
  ELSE <<s[i]>> \o test_transformFrom(s, i + 1)

test_transformFrom(s, i) ==
  IF i > Len(s) THEN <<>>
  ELSE test_transformAfter(s, i, test_matchEnd(s, i))

transform(fn, value) ==
  CASE fn = "html" -> html_transform(value)
    [] fn = "script" -> script_transform(value)
    [] fn = "xss" -> xss_transform(value)
    [] fn = "trim" -> trim_transform(value)
    [] fn = "email-normalize" -> email_transform(value)
    [] fn = "phone-normalize" -> phone_transform(value)
    [] fn = "command-injection" -> command_transform(value)
    [] fn = "test-rule" -> test_transformFrom(value, 1)

\* rule.validate(value)
validate(fn, value) ==
  CASE fn = "html" -> html_validate(value)
    [] fn = "script" -> script_validate(value)
    [] fn = "sql" -> sql_validate(value)
    [] fn = "xss" -> xss_validate(value)
    [] fn = "trim" -> trim_validate(value)
    [] fn = "email-normalize" -> email_validate(value)
    [] fn = "phone-normalize" -> phone_validate(value)
    [] fn = "url-validate" -> url_validate(value)
    [] fn = "path-traversal" -> path_validate(value)
    [] fn = "command-injection" -> command_validate(value)

Rule(name, t, v) == [name |-> name, transform |-> t, validate |-> v]

\* Object.values(DEFAULT_SANITIZATION_RULES), in the order of the table
DEFAULT_SANITIZATION_RULES == <<
  Rule(N.html, "html", "html"),
  Rule(N.script, "script", "script"),
  Rule(N.sql, "none", "sql"),
  Rule(N.xss, "xss", "xss"),
  Rule(N.trim, "trim", "trim"),
  Rule(N.email_normalize, "email-normalize", "email-normalize"),
  Rule(N.phone_normalize, "phone-normalize", "phone-normalize"),
  Rule(N.url_validate, "none", "url-validate"),
  Rule(N.path_traversal, "none", "path-traversal"),
  Rule(N.command_injection, "command-injection", "command-injection") >>

\* the key whose assignment sets the prototype of an object
__proto__ == <<"_", "_", "p", "r", "o", "t", "o", "_", "_">>

\* What an object literal inherits from Object.prototype, as <<key, value>>. A
\* value that is not a string is written as the sequence of its kind and its
\* name: a function as "function" and the characters of its name,
\* Object.prototype as "object"
ObjectPrototype ==
  <<
     <<<<"c", "o", "n", "s", "t", "r", "u", "c", "t", "o", "r">>, <<"function">> \o <<"O", "b", "j", "e", "c", "t">>>>,
     <<<<"t", "o", "S", "t", "r", "i", "n", "g">>, <<"function">> \o <<"t", "o", "S", "t", "r", "i", "n", "g">>>>,
     <<<<"t", "o", "L", "o", "c", "a", "l", "e", "S", "t", "r", "i", "n", "g">>, <<"function">> \o <<"t", "o", "L", "o", "c", "a", "l", "e", "S", "t", "r", "i", "n", "g">>>>,
     <<<<"v", "a", "l", "u", "e", "O", "f">>, <<"function">> \o <<"v", "a", "l", "u", "e", "O", "f">>>>,
     <<<<"h", "a", "s", "O", "w", "n", "P", "r", "o", "p", "e", "r", "t", "y">>, <<"function">> \o <<"h", "a", "s", "O", "w", "n", "P", "r", "o", "p", "e", "r", "t", "y">>>>,
     <<<<"i", "s", "P", "r", "o", "t", "o", "t", "y", "p", "e", "O", "f">>, <<"function">> \o <<"i", "s", "P", "r", "o", "t", "o", "t", "y", "p", "e", "O", "f">>>>,
     <<<<"p", "r", "o", "p", "e", "r", "t", "y", "I", "s", "E", "n", "u", "m", "e", "r", "a", "b", "l", "e">>, <<"function">> \o <<"p", "r", "o", "p", "e", "r", "t", "y", "I", "s", "E", "n", "u", "m", "e", "r", "a", "b", "l", "e">>>>,
     <<<<"_", "_", "d", "e", "f", "i", "n", "e", "G", "e", "t", "t", "e", "r", "_", "_">>, <<"function">> \o <<"_", "_", "d", "e", "f", "i", "n", "e", "G", "e", "t", "t", "e", "r", "_", "_">>>>,
     <<<<"_", "_", "d", "e", "f", "i", "n", "e", "S", "e", "t", "t", "e", "r", "_", "_">>, <<"function">> \o <<"_", "_", "d", "e", "f", "i", "n", "e", "S", "e", "t", "t", "e", "r", "_", "_">>>>,
     <<<<"_", "_", "l", "o", "o", "k", "u", "p", "G", "e", "t", "t", "e", "r", "_", "_">>, <<"function">> \o <<"_", "_", "l", "o", "o", "k", "u", "p", "G", "e", "t", "t", "e", "r", "_", "_">>>>,
     <<<<"_", "_", "l", "o", "o", "k", "u", "p", "S", "e", "t", "t", "e", "r", "_", "_">>, <<"function">> \o <<"_", "_", "l", "o", "o", "k", "u", "p", "S", "e", "t", "t", "e", "r", "_", "_">>>>,
     <<__proto__, <<"object">>>> >>

\* {...}[key] of a key that is no property of the literal itself: the
\* inherited value, <<>> for undefined
inherited(key) ==
  LET hit == {i \in 1..Len(ObjectPrototype) : ObjectPrototype[i][1] = key}
  IN  IF hit = {} THEN <<>> ELSE ObjectPrototype[CHOOSE i \in hit : TRUE][2]

\* String(x) of a string or of an inherited value
String(x) ==
  CASE x # <<>> /\ Head(x) = "function" -> <<"f", "u", "n", "c", "t", "i", "o", "n", " ">> \o Tail(x) \o <<"(", ")", " ", "{", " ", "[", "n", "a", "t", "i", "v", "e", " ", "c", "o", "d", "e", "]", " ", "}">>
    [] x # <<>> /\ Head(x) = "object" -> <<"[", "o", "b", "j", "e", "c", "t", " ", "O", "b", "j", "e", "c", "t", "]">>
    [] OTHER -> x

getSecurityViolationType(ruleName) ==
  \* typeMap[ruleName] || SecurityViolationType.XSS
  CASE ruleName = N.html -> SecurityViolationType.HTML_INJECTION
    [] ruleName = N.script -> SecurityViolationType.SCRIPT_INJECTION
    [] ruleName = N.xss -> SecurityViolationType.XSS
    [] ruleName = N.sql -> SecurityViolationType.SQL_INJECTION
    [] ruleName = N.path_traversal -> SecurityViolationType.PATH_TRAVERSAL
    [] ruleName = N.command_injection -> SecurityViolationType.COMMAND_INJECTION
    [] inherited(ruleName) # <<>> -> inherited(ruleName)
    [] OTHER -> SecurityViolationType.XSS

getViolationSeverity(violationType) ==
  \* severityMap[violationType] || 'medium'
  CASE violationType = SecurityViolationType.XSS -> "high"
    [] violationType = SecurityViolationType.SQL_INJECTION -> "critical"
    [] violationType = SecurityViolationType.HTML_INJECTION -> "medium"
    [] violationType = SecurityViolationType.SCRIPT_INJECTION -> "critical"
    [] violationType = SecurityViolationType.PATH_TRAVERSAL -> "high"
    [] violationType = SecurityViolationType.COMMAND_INJECTION -> "critical"
    [] OTHER -> "medium"

-----------------------------------------------------------------------------
(* JSON-like values *)

Str(s) == [t |-> "string", v |-> s]
Num(n) == [t |-> "number", v |-> n]
Bool(b) == [t |-> "boolean", v |-> b]
Null == [t |-> "null", v |-> <<>>]
Undefined == [t |-> "undefined", v |-> <<>>]
Arr(items) == [t |-> "array", v |-> items]
Obj(entries) == [t |-> "object", v |-> entries]
Entry(k, v) == [k |-> k, v |-> v]

\* String(n) of an integer
RECURSIVE numberToString(_)
numberToString(n) ==
  IF n < 0 THEN <<"-">> \o numberToString(0 - n)
  ELSE IF n < 10 THEN <<ASCII[17 + n]>>
  ELSE numberToString(n \div 10) \o <<ASCII[17 + (n % 10)]>>

-----------------------------------------------------------------------------
(* SanitizationEngine: src/src/core/normalization-engine.ts, lines 273-424 *)

\* the external HTML sanitizer with ALLOWED_TAGS: [] and ALLOWED_ATTR: [],
\* as the repository's tests stand in for it: html.replace(/<[^>]*>/g, '')
purify_sanitize(html) == replaceAllFrom("html", html, 1)

\* the SecurityViolation sanitizeString pushes for a rule
SecurityViolation(rule, fieldPath, originalValue, sanitized, violationType) ==
  [type |-> violationType,
   field |-> fieldPath,
   originalValue |-> originalValue,
   sanitizedValue |-> sanitized,
   rule |-> rule.name,
   severity |-> getViolationSeverity(violationType)]

\* rule.validate && !rule.validate(sanitized)
violatesRule(rule, sanitized) ==
  rule.validate # "none" /\ ~validate(rule.validate, sanitized)

\* if (rule.transform) { sanitized = rule.transform(sanitized) }
transformRule(rule, sanitized) ==
  IF rule.transform # "none" THEN transform(rule.transform, sanitized) ELSE sanitized

\* if (rule.name === 'html' && sanitized.includes('<')) { sanitized = purify.sanitize(...) }
purifyRule(rule, sanitized) ==
  IF rule.name = N.html /\ includes(sanitized, <<"<">>)
  THEN purify_sanitize(sanitized)
  ELSE sanitized

\* the end of one pass of the loop of sanitizeString, given what validate and
\* transform returned; acc = [sanitized, violations, appliedRules]
sanitizeStringPass(acc, rule, fieldPath, violates, transformed) ==
  [sanitized |-> purifyRule(rule, transformed),
   violations |->
     IF violates
     THEN Append(acc.violations,
                 SecurityViolation(rule, fieldPath, acc.sanitized, acc.sanitized,
                                   getSecurityViolationType(rule.name)))
     ELSE acc.violations,
   appliedRules |->
     IF rule.transform # "none" /\ transformed # acc.sanitized
     THEN Append(acc.appliedRules, rule.name)
     ELSE acc.appliedRules]

\* one pass of the loop of sanitizeString
sanitizeStringStep(acc, rule, fieldPath) ==
  sanitizeStringPass(acc, rule, fieldPath,
                     violatesRule(rule, acc.sanitized),
                     transformRule(rule, acc.sanitized))

\* for (const rule of rules): a pass starts from what the passes before it have
\* left (acc = acc has that computed before the pass, and is true of any value)
RECURSIVE sanitizeStringLoop(_, _, _)
sanitizeStringLoop(acc, rules, fieldPath) ==
  IF rules = <<>> \/ acc # acc THEN acc
  ELSE sanitizeStringLoop(sanitizeStringStep(acc, Head(rules), fieldPath),
                          Tail(rules), fieldPath)

\* sanitizeString: the sanitized string, with the violations and appliedRules
\* arrays as the call leaves them
sanitizeString(value, rules, fieldPath, violations, appliedRules) ==
  sanitizeStringLoop([sanitized |-> value, violations |-> violations,
                      appliedRules |-> appliedRules], rules, fieldPath)

\* sanitizeValue: [sanitized, violations, appliedRules]
RECURSIVE sanitizeValue(_, _, _, _, _)
RECURSIVE sanitizeItems(_, _, _, _, _, _)
RECURSIVE sanitizeEntries(_, _, _, _, _, _)

\* r with its sanitized part wrapped as a value of type t
wrap(type, r) == [r EXCEPT !.sanitized = [t |-> type, v |-> r.sanitized]]

\* r with x put in front of its sanitized part
cons(x, r) ==
  [sanitized |-> <<x>> \o r.sanitized,
   violations |-> r.violations,
   appliedRules |-> r.appliedRules]

sanitizeValue(value, rules, fieldPath, violations, appliedRules) ==
  CASE value.t \in {"null", "undefined"} ->
         [sanitized |-> value, violations |-> violations, appliedRules |-> appliedRules]
    [] value.t = "string" ->
         wrap("string", sanitizeString(value.v, rules, fieldPath, violations, appliedRules))
    [] value.t = "array" ->
         wrap("array", sanitizeItems(value.v, 1, rules, fieldPath, violations, appliedRules))
    [] value.t = "object" ->
         wrap("object", sanitizeEntries(value.v, 1, rules, fieldPath, violations, appliedRules))
    \* an Error is an object with no enumerable property of its own
    [] value.t = "error" ->
         [sanitized |-> [t |-> "object", v |-> <<>>], violations |-> violations,
          appliedRules |-> appliedRules]
    [] OTHER ->
         [sanitized |-> value, violations |-> violations, appliedRules |-> appliedRules]

\* the elements from the i-th on, first being the sanitization of the i-th
sanitizeItemsAfter(items, i, rules, fieldPath, first) ==
  cons(first.sanitized,
       sanitizeItems(items, i + 1, rules, fieldPath, first.violations, first.appliedRules))

\* value.map((item, index) => sanitizeValue(item, rules, `${fieldPath}[${index}]`, ...))
sanitizeItems(items, i, rules, fieldPath, violations, appliedRules) ==
  IF i > Len(items)
  THEN [sanitized |-> <<>>, violations |-> violations, appliedRules |-> appliedRules]
  ELSE sanitizeItemsAfter(items, i, rules, fieldPath,
         sanitizeValue(items[i], rules,
                       fieldPath \o <<"[">> \o numberToString(i - 1) \o <<"]">>,
                       violations, appliedRules))

\* const newFieldPath = fieldPath ? `${fieldPath}.${key}` : key
newFieldPath(fieldPath, key) ==
  IF fieldPath # <<>> THEN fieldPath \o <<".">> \o key ELSE key

\* the entries from the i-th on, first being the sanitization of the i-th
\* value; sanitizedObj[key] = ... of the key __proto__ sets the prototype of
\* sanitizedObj and creates no property
sanitizeEntriesAfter(entries, i, rules, fieldPath, first) ==
  IF entries[i].k = __proto__
  THEN sanitizeEntries(entries, i + 1, rules, fieldPath, first.violations, first.appliedRules)
  ELSE cons(Entry(entries[i].k, first.sanitized),
            sanitizeEntries(entries, i + 1, rules, fieldPath, first.violations,
                            first.appliedRules))

\* for (const [key, val] of Object.entries(value)) { sanitizedObj[key] = ... }
sanitizeEntries(entries, i, rules, fieldPath, violations, appliedRules) ==
  IF i > Len(entries)
  THEN [sanitized |-> <<>>, violations |-> violations, appliedRules |-> appliedRules]
  ELSE sanitizeEntriesAfter(entries, i, rules, fieldPath,
         sanitizeValue(entries[i].v, rules, newFieldPath(fieldPath, entries[i].k),
                       violations, appliedRules))

-----------------------------------------------------------------------------
(* NormalizationEngine: src/src/core/normalization-engine.ts, lines 13-256 *)

\* property names of the responses
P ==
  [success |-> <<"s", "u", "c", "c", "e", "s", "s">>,
   error |-> <<"e", "r", "r", "o", "r">>,
   code |-> <<"c", "o", "d", "e">>,
   message |-> <<"m", "e", "s", "s", "a", "g", "e">>,
   details |-> <<"d", "e", "t", "a", "i", "l", "s">>,
   timestamp |-> <<"t", "i", "m", "e", "s", "t", "a", "m", "p">>,
   requestId |-> <<"r", "e", "q", "u", "e", "s", "t", "I", "d">>,
   stack |-> <<"s", "t", "a", "c", "k">>,
   metadata |-> <<"m", "e", "t", "a", "d", "a", "t", "a">>,
   version |-> <<"v", "e", "r", "s", "i", "o", "n">>,
   processingTime |-> <<"p", "r", "o", "c", "e", "s", "s", "i", "n", "g", "T", "i", "m", "e">>,
   helpUrl |-> <<"h", "e", "l", "p", "U", "r", "l">>,
   possibleCauses |-> <<"p", "o", "s", "s", "i", "b", "l", "e", "C", "a", "u", "s", "e", "s">>,
   server |-> <<"s", "e", "r", "v", "e", "r">>,
   nodeVersion |-> <<"n", "o", "d", "e", "V", "e", "r", "s", "i", "o", "n">>,
   data |-> <<"d", "a", "t", "a">>,
   pagination |-> <<"p", "a", "g", "i", "n", "a", "t", "i", "o", "n">>,
   page |-> <<"p", "a", "g", "e">>,
   limit |-> <<"l", "i", "m", "i", "t">>,
   total |-> <<"t", "o", "t", "a", "l">>,
   totalPages |-> <<"t", "o", "t", "a", "l", "P", "a", "g", "e", "s">>,
   hasNext |-> <<"h", "a", "s", "N", "e", "x", "t">>,
   hasPrev |-> <<"h", "a", "s", "P", "r", "e", "v">>,
   links |-> <<"l", "i", "n", "k", "s">>,
   items |-> <<"i", "t", "e", "m", "s">>,
   response |-> <<"r", "e", "s", "p", "o", "n", "s", "e">>]

\* the string literals of the two engines, and the values process.version and
\* process.env.NODE_ENV take
W ==
  [ v1 |-> <<"v", "1">>,
    INTERNAL_ERROR |-> <<"I", "N", "T", "E", "R", "N", "A", "L", "_", "E", "R", "R", "O", "R">>,
    VALIDATION_ERROR |-> <<"V", "A", "L", "I", "D", "A", "T", "I", "O", "N", "_", "E", "R", "R", "O", "R">>,
    UNKNOWN_ERROR |-> <<"U", "N", "K", "N", "O", "W", "N", "_", "E", "R", "R", "O", "R">>,
    AUTHENTICATION_ERROR |-> <<"A", "U", "T", "H", "E", "N", "T", "I", "C", "A", "T", "I", "O", "N", "_", "E", "R", "R", "O", "R">>,
    NOT_FOUND |-> <<"N", "O", "T", "_", "F", "O", "U", "N", "D">>,
    unexpected |-> <<"A", "n", " ", "u", "n", "e", "x", "p", "e", "c", "t", "e", "d", " ", "e", "r", "r", "o", "r", " ", "o", "c", "c", "u", "r", "r", "e", "d">>,
    REDACTED |-> <<"[", "R", "E", "D", "A", "C", "T", "E", "D", "]">>,
    baseUrl |-> <<"h", "t", "t", "p", "s", ":", "/", "/", "d", "o", "c", "s", ".", "e", "x", "a", "m", "p", "l", "e", ".", "c", "o", "m", "/", "e", "r", "r", "o", "r", "s">>,
    development |-> <<"d", "e", "v", "e", "l", "o", "p", "m", "e", "n", "t">>,
    unknown_cause |-> <<"U", "n", "k", "n", "o", "w", "n", " ", "e", "r", "r", "o", "r", " ", "c", "a", "u", "s", "e">>,
    epoch_minute |-> <<"1", "9", "7", "0", "-", "0", "1", "-", "0", "1", "T", "0", "0", ":", "0", "0", ":">>,
    violations_detected |-> <<"S", "a", "n", "i", "t", "i", "z", "a", "t", "i", "o", "n", " ", "v", "i", "o", "l", "a", "t", "i", "o", "n", "s", " ", "d", "e", "t", "e", "c", "t", "e", "d", ":", " ">>,
    invalid_rules |-> <<"I", "n", "v", "a", "l", "i", "d", " ", "s", "a", "n", "i", "t", "i", "z", "a", "t", "i", "o", "n", " ", "r", "u", "l", "e", "s", ":", " ">>,
    node_version |-> <<"v", "1", "8", ".", "0", ".", "0">>,
    production |-> <<"p", "r", "o", "d", "u", "c", "t", "i", "o", "n">> ]

sensitiveFields ==
  << <<"p", "a", "s", "s", "w", "o", "r", "d">>,
     <<"t", "o", "k", "e", "n">>,
     <<"s", "e", "c", "r", "e", "t">>,
     <<"k", "e", "y">>,
     <<"a", "u", "t", "h", "o", "r", "i", "z", "a", "t", "i", "o", "n">>,
     <<"a", "u", "t", "h">>,
     <<"c", "r", "e", "d", "e", "n", "t", "i", "a", "l">>,
     <<"s", "s", "n">>,
     <<"s", "o", "c", "i", "a", "l">>,
     <<"c", "r", "e", "d", "i", "t">>,
     <<"c", "a", "r", "d">> >>

\* causesMap: the entries, as <<code, causes>>
causesMap ==
  << << W.VALIDATION_ERROR,
        << <<"I", "n", "v", "a", "l", "i", "d", " ", "i", "n", "p", "u", "t", " ", "f", "o", "r", "m", "a", "t">>,
           <<"M", "i", "s", "s", "i", "n", "g", " ", "r", "e", "q", "u", "i", "r", "e", "d", " ", "f", "i", "e", "l", "d", "s">>,
           <<"F", "i", "e", "l", "d", " ", "l", "e", "n", "g", "t", "h", " ", "c", "o", "n", "s", "t", "r", "a", "i", "n", "t", "s", " ", "v", "i", "o", "l", "a", "t", "e", "d">> >> >>,
     << W.AUTHENTICATION_ERROR,
        << <<"I", "n", "v", "a", "l", "i", "d", " ", "c", "r", "e", "d", "e", "n", "t", "i", "a", "l", "s">>,
           <<"E", "x", "p", "i", "r", "e", "d", " ", "t", "o", "k", "e", "n">>,
           <<"I", "n", "s", "u", "f", "f", "i", "c", "i", "e", "n", "t", " ", "p", "e", "r", "m", "i", "s", "s", "i", "o", "n", "s">> >> >>,
     << W.NOT_FOUND,
        << <<"R", "e", "s", "o", "u", "r", "c", "e", " ", "d", "o", "e", "s", " ", "n", "o", "t", " ", "e", "x", "i", "s", "t">>,
           <<"I", "n", "c", "o", "r", "r", "e", "c", "t", " ", "r", "e", "s", "o", "u", "r", "c", "e", " ", "I", "D">>,
           <<"R", "e", "s", "o", "u", "r", "c", "e", " ", "h", "a", "s", " ", "b", "e", "e", "n", " ", "d", "e", "l", "e", "t", "e", "d">> >> >>,
     << W.INTERNAL_ERROR,
        << <<"S", "e", "r", "v", "e", "r", " ", "c", "o", "n", "f", "i", "g", "u", "r", "a", "t", "i", "o", "n", " ", "i", "s", "s", "u", "e">>,
           <<"D", "a", "t", "a", "b", "a", "s", "e", " ", "c", "o", "n", "n", "e", "c", "t", "i", "o", "n", " ", "p", "r", "o", "b", "l", "e", "m">>,
           <<"T", "h", "i", "r", "d", "-", "p", "a", "r", "t", "y", " ", "s", "e", "r", "v", "i", "c", "e", " ", "u", "n", "a", "v", "a", "i", "l", "a", "b", "l", "e">> >> >> >>

\* JavaScript truthiness of a value
truthy(x) ==
  CASE x.t = "string" -> x.v # <<>>
    [] x.t = "number" -> x.v # 0
    [] x.t = "boolean" -> x.v
    [] x.t \in {"null", "undefined", "NaN"} -> FALSE
    [] OTHER -> TRUE

\* a || b
or(a, b) == IF truthy(a) THEN a ELSE b

\* obj.key, undefined when obj has no such property
has(obj, key) == obj.t = "object" /\ \E i \in 1..Len(obj.v) : obj.v[i].k = key
get(obj, key) ==
  IF has(obj, key)
  THEN obj.v[CHOOSE i \in 1..Len(obj.v) : obj.v[i].k = key].v
  ELSE Undefined

\* an Error instance
Err(name, message, stack) ==
  [t |-> "error", v |-> [name |-> name, message |-> message, stack |-> stack]]

\* new Date(ms).toISOString(), for an instant of the first minute of the epoch
padStart(s, n) == [i \in 1..(n - Len(s)) |-> "0"] \o s

toISOString(ms) ==
  W.epoch_minute \o padStart(numberToString(ms \div 1000), 2) \o <<".">>
                 \o padStart(numberToString(ms % 1000), 3) \o <<"Z">>

\* The readings of the clock that a response keeps, in the order the code takes
\* them: clock[1] is Date.now() of createMetadata, clock[2] new Date() of
\* createMetadata, clock[3] new Date() of normalizeError. Readings(ms, ticks)
\* are those of a clock that reads ms first and advances by ticks[i] before
\* reading i + 1.
RECURSIVE Readings(_, _)
Readings(ms, ticks) ==
  IF ticks = <<>> THEN <<ms>> ELSE <<ms>> \o Readings(ms + Head(ticks), Tail(ticks))

\* createMetadata(context)
createMetadata(cfg, clock, context) ==
  LET processingTime == IF context.startTime # 0 THEN Num(clock[1] - context.startTime)
                        ELSE Undefined
  IN  Obj(<<Entry(P.timestamp, Str(toISOString(clock[2]))),
            Entry(P.requestId, context.requestId),
            Entry(P.version, Str(W.v1))>>
          \o IF cfg.includeMetadata /\ processingTime # Undefined
             THEN <<Entry(P.processingTime, processingTime)>>
             ELSE <<>>)

\* sensitiveFields.some(field => fieldName.toLowerCase().includes(field))
isSensitiveField(fieldName) ==
  \E i \in 1..Len(sensitiveFields) : includes(toLowerCase(fieldName), sensitiveFields[i])

RECURSIVE sanitizeErrorDetails(_)
sanitizeErrorDetails(details) ==
  IF ~truthy(details) THEN Undefined
  ELSE CASE details.t = "string" -> details
         [] details.t = "array" ->
              Arr([i \in 1..Len(details.v) |-> sanitizeErrorDetails(details.v[i])])
         [] details.t = "object" ->
              \* sanitized[key] = ... of the key __proto__ creates no property
              LET own == SelectSeq(details.v, LAMBDA e : e.k # __proto__)
              IN  Obj([i \in 1..Len(own) |->
                         IF isSensitiveField(own[i].k)
                         THEN Entry(own[i].k, Str(W.REDACTED))
                         ELSE Entry(own[i].k, sanitizeErrorDetails(own[i].v))])
         \* an Error is an object with no enumerable property of its own
         [] details.t = "error" -> Obj(<<>>)
         [] OTHER -> details

\* `${baseUrl}/${errorCode.toLowerCase()}`
generateHelpUrl(errorCode) == Str(W.baseUrl \o <<"/">> \o toLowerCase(errorCode.v))

\* causesMap[errorCode] || ['Unknown error cause']
getPossibleCauses(errorCode) ==
  LET hit == {i \in 1..Len(causesMap) : errorCode = Str(causesMap[i][1])}
  IN  CASE hit # {} ->
             Arr([j \in 1..Len(causesMap[CHOOSE i \in hit : TRUE][2]) |->
                    Str(causesMap[CHOOSE i \in hit : TRUE][2][j])])
        [] inherited(errorCode.v) # <<>> ->
             [t |-> Head(inherited(errorCode.v)), v |-> Tail(inherited(errorCode.v))]
        [] OTHER -> Arr(<<Str(W.unknown_cause)>>)

\* what normalizeError gives: a response, or the TypeError of calling
\* toLowerCase on a code that is not a string
Returned(response) == [threw |-> FALSE, response |-> response]
Thrown == [threw |-> TRUE, response |-> Undefined]

\* a variant of the formatting whose simple format leaves out the details only
applyErrorFormatting_noDetails(cfg, proc, response) ==
  LET error == get(response, P.error)
      metadata == get(response, P.metadata)
  IN  CASE cfg.errorFormat = "simple" ->
             Returned(Obj(<<Entry(P.success, Bool(FALSE)),
                            Entry(P.error,
                                  Obj(SelectSeq(error.v, LAMBDA e : e.k # P.details))),
                            Entry(P.metadata, metadata)>>))
        [] cfg.errorFormat = "detailed" ->
             IF get(error, P.code).t # "string" THEN Thrown
             ELSE Returned(Obj(<<Entry(P.success, Bool(FALSE)),
                                 Entry(P.error,
                                       Obj(error.v \o
                                           <<Entry(P.helpUrl, generateHelpUrl(get(error, P.code))),
                                             Entry(P.possibleCauses,
                                                   getPossibleCauses(get(error, P.code)))>>)),
                                 Entry(P.metadata,
                                       Obj(metadata.v \o
                                           <<Entry(P.server,
                                                   or(proc.NODE_ENV, Str(W.development))),
                                             Entry(P.nodeVersion, proc.version)>>))>>))
        [] OTHER -> Returned(response)

\* applyErrorFormatting(response), response being {success, error, metadata}
applyErrorFormatting(cfg, proc, response) ==
  LET error == get(response, P.error)
      metadata == get(response, P.metadata)
  IN  CASE cfg.errorFormat = "simple" ->
             Returned(Obj(<<Entry(P.success, Bool(FALSE)),
                            Entry(P.error,
                                  Obj(<<Entry(P.code, get(error, P.code)),
                                        Entry(P.message, get(error, P.message)),
                                        Entry(P.timestamp, get(error, P.timestamp)),
                                        Entry(P.requestId, get(error, P.requestId))>>)),
                            Entry(P.metadata, metadata)>>))
        [] cfg.errorFormat = "detailed" ->
             IF get(error, P.code).t # "string" THEN Thrown
             ELSE Returned(Obj(<<Entry(P.success, Bool(FALSE)),
                                 Entry(P.error,
                                       Obj(error.v \o
                                           <<Entry(P.helpUrl, generateHelpUrl(get(error, P.code))),
                                             Entry(P.possibleCauses,
                                                   getPossibleCauses(get(error, P.code)))>>)),
                                 Entry(P.metadata,
                                       Obj(metadata.v \o
                                           <<Entry(P.server,
                                                   or(proc.NODE_ENV, Str(W.development))),
                                             Entry(P.nodeVersion, proc.version)>>))>>))
        [] OTHER -> Returned(response)

\* a variant of the classification that prefers the error's own name and code
\* to the code parameter
classify_ownFirst(cfg, error, code) ==
  CASE error.t = "error" ->
         [message |-> error.v.message,
          code |-> or(error.v.name, or(code, Str(W.INTERNAL_ERROR))),
          stack |-> IF cfg.includeDebugInfo THEN error.v.stack ELSE Undefined]
    [] error.t = "string" ->
         [message |-> error,
          code |-> or(code, Str(W.VALIDATION_ERROR)),
          stack |-> Undefined]
    [] OTHER ->
         [message |-> or(get(error, P.message), Str(W.unexpected)),
          code |-> or(get(error, P.code), or(code, Str(W.UNKNOWN_ERROR))),
          stack |-> Undefined]

\* the message, code and stack normalizeError takes from its error argument
classify(cfg, error, code) ==
  CASE error.t = "error" ->
         [message |-> error.v.message,
          code |-> or(code, or(error.v.name, Str(W.INTERNAL_ERROR))),
          stack |-> IF cfg.includeDebugInfo THEN error.v.stack ELSE Undefined]
    [] error.t = "string" ->
         [message |-> error,
          code |-> or(code, Str(W.VALIDATION_ERROR)),
          stack |-> Undefined]
    [] OTHER ->
         [message |-> or(get(error, P.message), Str(W.unexpected)),
          code |-> or(code, or(get(error, P.code), Str(W.UNKNOWN_ERROR))),
          stack |-> Undefined]

\* normalizeError(error, context, code, details): the metadata is made first,
\* the timestamp of the error is taken after it
normalizeErrorAs(cfg, proc, clock, context, details, c) ==
  applyErrorFormatting(cfg, proc,
    Obj(<<Entry(P.success, Bool(FALSE)),
          Entry(P.error,
                Obj(<<Entry(P.code, c.code),
                      Entry(P.message, c.message),
                      Entry(P.details, sanitizeErrorDetails(details)),
                      Entry(P.timestamp, Str(toISOString(clock[3]))),
                      Entry(P.requestId, context.requestId)>>
                    \o IF truthy(c.stack) THEN <<Entry(P.stack, c.stack)>> ELSE <<>>)),
          Entry(P.metadata, createMetadata(cfg, clock, context))>>))

normalizeError(cfg, proc, clock, error, context, code, details) ==
  normalizeErrorAs(cfg, proc, clock, context, details, classify(cfg, error, code))

-----------------------------------------------------------------------------
(* NormalizationEngine: normalizeSuccess and the pagination *)

\* the numbers that are not integers: what a division by zero gives
NonFinite ==
  [NaN |-> [t |-> "NaN", v |-> 0],
   Infinity |-> [t |-> "Infinity", v |-> 0],
   NegInfinity |-> [t |-> "-Infinity", v |-> 0]]

\* Math.ceil(a / b) of two integers
ceilOfQuotient(a, b) ==
  CASE b > 0 -> Num(-((-a) \div b))
    [] b < 0 -> Num(-(a \div (-b)))
    [] a > 0 -> NonFinite.Infinity
    [] a < 0 -> NonFinite.NegInfinity
    [] OTHER -> NonFinite.NaN

\* Math.max(n, x), Math.min(n, x) of an integer n and a number x
Math_max(n, x) ==
  CASE x.t = "number" -> Num(IF x.v > n THEN x.v ELSE n)
    [] x.t = "-Infinity" -> Num(n)
    [] OTHER -> x

\* a variant of Math.min that leaves its second argument as it is
Math_min_none(n, x) == x

Math_min(n, x) ==
  CASE x.t = "number" -> Num(IF x.v < n THEN x.v ELSE n)
    [] x.t = "Infinity" -> Num(n)
    [] OTHER -> x

\* n < x of an integer n and a number x
lessThan(n, x) ==
  CASE x.t = "number" -> n < x.v
    [] x.t = "Infinity" -> TRUE
    [] OTHER -> FALSE

\* normalizePagination(pagination), page, limit and total being integers
normalizePagination(cfg, pagination) ==
  LET page == get(pagination, P.page).v
      limit == get(pagination, P.limit).v
      total == get(pagination, P.total).v
  IN  Obj(<<Entry(P.page, Math_max(1, Num(page))),
            Entry(P.limit, Math_max(1, Math_min(100, Num(limit)))),
            Entry(P.total, Math_max(0, Num(total))),
            Entry(P.totalPages, Math_max(1, ceilOfQuotient(total, limit))),
            Entry(P.hasNext, Bool(lessThan(page, ceilOfQuotient(total, limit)))),
            Entry(P.hasPrev, Bool(page > 1))>>
          \o IF cfg.includeLinks /\ truthy(get(pagination, P.links))
             THEN <<Entry(P.links, get(pagination, P.links))>>
             ELSE <<>>)

\* {...obj, key: value}: the property in its place when obj has it, else last
spread(obj, key, value) ==
  IF has(obj, key)
  THEN Obj([i \in 1..Len(obj.v) |-> IF obj.v[i].k = key THEN Entry(key, value) ELSE obj.v[i]])
  ELSE Obj(obj.v \o <<Entry(key, value)>>)

\* applyFormatting(response), response being {success, data, metadata,
\* pagination?}
applyFormatting(cfg, proc, response) ==
  CASE cfg.format = "minimal" ->
         Obj(<<Entry(P.success, get(response, P.success)),
               Entry(P.data, get(response, P.data))>>)
    [] cfg.format = "detailed" ->
         spread(response, P.metadata,
                Obj(get(response, P.metadata).v \o
                    <<Entry(P.server, or(proc.NODE_ENV, Str(W.development))),
                      Entry(P.nodeVersion, proc.version)>>))
    [] OTHER -> response

\* normalizeSuccess(data, context, pagination)
normalizeSuccess(cfg, proc, clock, data, context, pagination) ==
  applyFormatting(cfg, proc,
    Obj(<<Entry(P.success, Bool(TRUE)),
          Entry(P.data, data),
          Entry(P.metadata, createMetadata(cfg, clock, context))>>
        \o IF truthy(pagination)
           THEN <<Entry(P.pagination, normalizePagination(cfg, pagination))>>
           ELSE <<>>))

-----------------------------------------------------------------------------
(* The state of one SanitizationEngine, of one NormalizationEngine, and of
   their caller *)

VARIABLES
  config,              \* this.config: [rules, strictMode, logViolations, rejectOnViolation]
  rulesCache,          \* this.rulesCache: rule name -> rule
  compiledRulesCache,  \* this.compiledRulesCache: cache key -> compiled rules
  normalization,       \* the NormalizationConfig of the NormalizationEngine
  process,             \* process.env.NODE_ENV and process.version
  now,                 \* the clock, in milliseconds
  ret,                 \* the last call: its arguments and what it returned or threw
  calls,               \* the number of calls made on the engines
  req,                 \* the request an adapter handles: headers, body, query, params
  res,                 \* its response: status, send and json, what was sent, next() calls
  options,             \* the options the adapters were created with
  bound,               \* the rules createSanitizationMiddleware bound, once they are
                       \* an array of their own: undefined while they are the
                       \* array that config.rules or options.rules holds
  second               \* a second SanitizationEngine and NormalizationEngine

vars == <<config, rulesCache, compiledRulesCache, normalization, process, now, ret, calls,
          req, res, options, bound, second>>

\* the request, the response, the options of the adapters and the rules the
\* middleware bound
transport == <<req, res, options, bound>>

\* what a call on the SanitizationEngine leaves alone
host == <<normalization, process, now, transport, second>>

\* what a call on the NormalizationEngine leaves alone
engine == <<config, rulesCache, compiledRulesCache>>

\* a Map built by set() calls in the order of the sequence
mapOf(rules, m) ==
  [n \in DOMAIN m \cup {rules[i].name : i \in 1..Len(rules)} |->
     LET set == {i \in 1..Len(rules) : rules[i].name = n}
     IN  IF set = {} THEN m[n]
         ELSE rules[CHOOSE i \in set : \A j \in set : j <= i]]

EmptyMap == [n \in {} |-> 0]

\* initializeRules: the built-in rules, then config.customRules over them
initializeRules(customRules) == mapOf(customRules, mapOf(DEFAULT_SANITIZATION_RULES, EmptyMap))

\* rules.sort() as sanitize does it: the array is sorted in place, so this is
\* also what the caller's array holds after the call
sortedRules(rules) == sort(rules)

\* const cacheKey = rules.sort().join(',')
cacheKey(rules) == join(sortedRules(rules), <<",">>)

\* rules.map(ruleName => this.rulesCache.get(ruleName)).filter(rule => rule !== undefined),
\* on the array that sort() has already reordered
RECURSIVE resolveRules(_, _)
resolveRules(names, registry) ==
  IF names = <<>> THEN <<>>
  ELSE (IF Head(names) \in DOMAIN registry THEN <<registry[Head(names)]>> ELSE <<>>)
       \o resolveRules(Tail(names), registry)

\* the compiled rules sanitize applies: the cached ones under the key, else resolved
compiledRules(rules, registry, cache) ==
  IF cacheKey(rules) \in DOMAIN cache
  THEN cache[cacheKey(rules)]
  ELSE resolveRules(sortedRules(rules), registry)

\* this.compiledRulesCache after the lookup of sanitize
cacheAfter(rules, registry, cache) ==
  IF cacheKey(rules) \in DOMAIN cache THEN cache
  ELSE [k \in DOMAIN cache \cup {cacheKey(rules)} |->
          IF k = cacheKey(rules) THEN resolveRules(sortedRules(rules), registry)
          ELSE cache[k]]

\* a variant of the rejection test that does not look at rejectOnViolation
rejects_strictOnly(cfg, violations) ==
  cfg.strictMode /\ Len(violations) > 0

\* this.config.strictMode && violations.length > 0, then this.config.rejectOnViolation
rejects(cfg, violations) ==
  cfg.strictMode /\ Len(violations) > 0 /\ cfg.rejectOnViolation

\* this.config.logViolations && violations.length > 0, reached when nothing was thrown
logs(cfg, violations) ==
  cfg.logViolations /\ Len(violations) > 0

\* `Sanitization violations detected: ${violations.map(v => v.type).join(', ')}`
violationMessage(violations) ==
  W.violations_detected \o
  join([i \in 1..Len(violations) |-> String(violations[i].type)], <<",", " ">>)

\* violations.map(v => `${v.field}: ${v.type}`)
violationStrings(violations) ==
  [i \in 1..Len(violations) |->
     violations[i].field \o <<":", " ">> \o String(violations[i].type)]

\* what sanitize returns or throws once the traversal has ended with r.
\* rulesAfter is the caller's array after the call, applied the compiled rules
\* the traversal used, found the SecurityViolation records of the traversal.
sanitizeEnd(cfg, data, rules, compiled, r, threw) ==
  [op |-> "sanitize",
   data |-> data,
   rules |-> rules,
   rulesAfter |-> sortedRules(rules),
   applied |-> compiled,
   found |-> r.violations,
   threw |-> threw,
   error |-> IF threw THEN violationMessage(r.violations) ELSE <<>>,
   warned |-> ~threw /\ logs(cfg, r.violations),
   sanitized |-> IF threw THEN Undefined ELSE r.sanitized,
   violations |-> IF threw THEN <<>> ELSE violationStrings(r.violations),
   appliedRules |-> IF threw THEN <<>> ELSE r.appliedRules,
   usedDefault |-> FALSE,
   again |-> FALSE]

sanitizeWith(cfg, data, rules, compiled, r) ==
  sanitizeEnd(cfg, data, rules, compiled, r, rejects(cfg, r.violations))

sanitizeCompiled(cfg, data, rules, compiled) ==
  sanitizeWith(cfg, data, rules, compiled,
               sanitizeValue(data, compiled, <<>>, <<>>, <<>>))

\* sanitize(data, rules)
sanitize(cfg, registry, cache, data, rules) ==
  sanitizeCompiled(cfg, data, rules, compiledRules(rules, registry, cache))

\* validateConfig(config): true, or the message of the error it throws
validateConfig(registry, cfg) ==
  LET invalidRules == SelectSeq(cfg.rules, LAMBDA rule : rule \notin DOMAIN registry)
  IN  [op |-> "validateConfig",
       rules |-> cfg.rules,
       threw |-> Len(invalidRules) > 0,
       error |-> IF Len(invalidRules) > 0
                 THEN W.invalid_rules \o join(invalidRules, <<",", " ">>)
                 ELSE <<>>,
       value |-> Len(invalidRules) = 0]

-----------------------------------------------------------------------------
(* The operations of the engine *)

\* the number of calls made on one engine
MaxCalls == 2

\* DEFAULT_CONFIG.normalization
DEFAULT_NORMALIZATION ==
  [enabled |-> TRUE,
   format |-> "standard",
   includeMetadata |-> TRUE,
   errorFormat |-> "standard",
   includeDebugInfo |-> FALSE,
   compressResponses |-> FALSE,
   includeLinks |-> FALSE]

\* the runtime: NODE_ENV set or not, and the version string of the runtime
Processes == [NODE_ENV : {Undefined, Str(W.production)}, version : {Str(W.node_version)}]

\* a request without headers or payload
NoRequest ==
  [headers |-> Obj(<<>>), body |-> Undefined, query |-> Undefined, params |-> Undefined]

\* a response nothing was done to: status 200, nothing sent, send and json the
\* methods of the framework, next not called
NewResponse ==
  [statusCode |-> 200, headersSent |-> FALSE, send |-> "original", json |-> "original",
   startTime |-> 0, contentType |-> Undefined, sent |-> <<>>, next |-> 0, errors |-> 0]

\* the options an adapter has when none are given
NoOptions ==
  [autoDetectPagination |-> TRUE, extractRequestId |-> Undefined, rules |-> Undefined,
   sanitizeBody |-> TRUE, sanitizeQuery |-> TRUE, sanitizeParams |-> TRUE,
   sanitizeHeaders |-> FALSE, onViolation |-> Undefined]

\* no adapter at work
\* a second pair of engines: built from the configuration objects of the
\* first pair (same), or from objects of its own with the same content; its
\* rule registry and its cache of compiled rules are its own
SecondEngines(same) ==
  [same |-> same,
   config |-> config,
   normalization |-> normalization,
   rulesCache |-> initializeRules(config.customRules),
   compiledRulesCache |-> EmptyMap]

InitSecond == second = SecondEngines(FALSE)

\* the ways the clock advances between the readings of one call: not at all,
\* after the first reading, after the second
Ticks == {<<0, 0>>, <<1, 0>>, <<0, 1>>}

InitTransport ==
  /\ req = NoRequest
  /\ res = NewResponse
  /\ options = NoOptions
  /\ bound = Undefined

\* a NormalizationEngine of the default configuration
InitHost ==
  /\ normalization = DEFAULT_NORMALIZATION
  /\ process = [NODE_ENV |-> Undefined, version |-> Str(W.node_version)]
  /\ now = 1500

\* sanitize(data, rules) with the caller's own rule-name array
Sanitize(data, rules) ==
  /\ calls < MaxCalls
  /\ ret' = sanitize(config, rulesCache, compiledRulesCache, data, rules)
  /\ compiledRulesCache' = cacheAfter(rules, rulesCache, compiledRulesCache)
  /\ calls' = calls + 1
  /\ UNCHANGED <<config, rulesCache, host>>

\* sanitize(data): rules is this.config.rules itself, which sort() reorders
SanitizeDefault(data) ==
  /\ calls < MaxCalls
  /\ ret' = [sanitize(config, rulesCache, compiledRulesCache, data, config.rules)
               EXCEPT !.usedDefault = TRUE]
  /\ compiledRulesCache' = cacheAfter(config.rules, rulesCache, compiledRulesCache)
  /\ config' = [config EXCEPT !.rules = sortedRules(config.rules)]
  /\ calls' = calls + 1
  /\ UNCHANGED <<rulesCache, host>>

\* sanitize(r.sanitized, rules) where r is what the last call returned and
\* rules the array that call was given
SanitizeAgain ==
  /\ calls < MaxCalls
  /\ ret.op = "sanitize"
  /\ ~ret.threw
  /\ ~ret.again
  /\ ret' = [sanitize(config, rulesCache, compiledRulesCache, ret.sanitized, ret.rulesAfter)
               EXCEPT !.again = TRUE]
  /\ compiledRulesCache' = cacheAfter(ret.rulesAfter, rulesCache, compiledRulesCache)
  /\ calls' = calls + 1
  /\ UNCHANGED <<config, rulesCache, host>>

\* addCustomRule(rule)
AddCustomRule(rule) ==
  /\ calls < MaxCalls
  /\ rulesCache' = mapOf(<<rule>>, rulesCache)
  /\ compiledRulesCache' = EmptyMap
  /\ ret' = [op |-> "addCustomRule", rule |-> rule]
  /\ calls' = calls + 1
  /\ UNCHANGED <<config, host>>

\* removeRule(ruleName)
RemoveRule(ruleName) ==
  /\ calls < MaxCalls
  /\ rulesCache' = [n \in DOMAIN rulesCache \ {ruleName} |-> rulesCache[n]]
  /\ compiledRulesCache' = EmptyMap
  /\ ret' = [op |-> "removeRule", ruleName |-> ruleName]
  /\ calls' = calls + 1
  /\ UNCHANGED <<config, host>>

\* the call of normalizeError and what came of it
normalizeErrorCall(error, context, code, details, out) ==
  [op |-> "normalizeError", error |-> error, context |-> context, code |-> code,
   details |-> details, threw |-> out.threw, response |-> out.response, clock |-> <<>>]

\* normalizeError(error, context, code, details); the clock may advance between
\* the three times the call reads it
NormalizeError(error, context, code, details, ticks) ==
  /\ calls < MaxCalls
  /\ ret' = [normalizeErrorCall(error, context, code, details,
                                normalizeError(normalization, process, Readings(now, ticks),
                                               error, context, code, details))
               EXCEPT !.clock = Readings(now, ticks)]
  /\ now' = Readings(now, ticks)[3]
  /\ calls' = calls + 1
  /\ UNCHANGED <<engine, normalization, process, second, transport>>

\* the call of normalizeSuccess and what it returned
normalizeSuccessCall(data, context, pagination, response) ==
  [op |-> "normalizeSuccess", data |-> data, context |-> context,
   pagination |-> pagination, threw |-> FALSE, response |-> response, clock |-> <<>>]

\* normalizeSuccess(data, context, pagination); the clock may advance between
\* the two times the call reads it
NormalizeSuccess(data, context, pagination, ticks) ==
  /\ calls < MaxCalls
  /\ ret' = [normalizeSuccessCall(data, context, pagination,
                                  normalizeSuccess(normalization, process, Readings(now, ticks),
                                                   data, context, pagination))
               EXCEPT !.clock = Readings(now, ticks)]
  /\ now' = Readings(now, ticks)[2]
  /\ calls' = calls + 1
  /\ UNCHANGED <<engine, normalization, process, second, transport>>

\* Object.assign(this.config, newConfig)
updateConfig(cfg, newConfig) ==
  [f \in DOMAIN cfg \cup DOMAIN newConfig |->
     IF f \in DOMAIN newConfig THEN newConfig[f] ELSE cfg[f]]

\* validateConfig(config) with a configuration naming the given rules
ValidateConfig(rules) ==
  /\ calls < MaxCalls
  /\ ret' = validateConfig(rulesCache, [rules |-> rules])
  /\ calls' = calls + 1
  /\ UNCHANGED <<engine, host>>

-----------------------------------------------------------------------------
(* The Express normalization middleware:
   src/src/express/normalization.middleware.ts *)

\* header names and literals of the adapters
H ==
  [x_request_id |-> <<"x", "-", "r", "e", "q", "u", "e", "s", "t", "-", "i", "d">>,
   x_correlation_id |-> <<"x", "-", "c", "o", "r", "r", "e", "l", "a", "t", "i", "o", "n", "-", "i", "d">>,
   x_trace_id |-> <<"x", "-", "t", "r", "a", "c", "e", "-", "i", "d">>,
   HTTP_ |-> <<"H", "T", "T", "P", "_">>,
   application_json |-> <<"a", "p", "p", "l", "i", "c", "a", "t", "i", "o", "n", "/", "j", "s", "o", "n">>,
   TypeError |-> <<"T", "y", "p", "e", "E", "r", "r", "o", "r">>,
   unknown |-> <<"u", "n", "k", "n", "o", "w", "n">>,
   status |-> <<"s", "t", "a", "t", "u", "s">>,
   statusCode |-> <<"s", "t", "a", "t", "u", "s", "C", "o", "d", "e">>,
   in_operator |-> <<"C", "a", "n", "n", "o", "t", " ", "u", "s", "e", " ", "'", "i", "n", "'", " ", "o", "p", "e", "r", "a", "t", "o", "r", " ", "t", "o", " ", "s", "e", "a", "r", "c", "h", " ", "f", "o", "r", " ", "'", "r", "e", "q", "u", "e", "s", "t", "I", "d", "'", " ", "i", "n", " ">>,
   at_isAlreadyNormalized |-> <<"\n", " ", " ", " ", " ", "a", "t", " ", "N", "o", "r", "m", "a", "l", "i", "z", "a", "t", "i", "o", "n", "I", "n", "t", "e", "r", "c", "e", "p", "t", "o", "r", ".", "i", "s", "A", "l", "r", "e", "a", "d", "y", "N", "o", "r", "m", "a", "l", "i", "z", "e", "d">>]

\* a JSON text, known by the value it denotes; it is a string as any other:
\* typeof gives 'string' for the kinds "string" and "json"
JsonText(value) == [t |-> "json", v |-> value]

\* the value JSON.stringify writes for x: properties that are undefined or
\* functions are left out, undefined, functions and non-finite numbers in an
\* array become null, an Error has no enumerable property
RECURSIVE toJSON(_)
toJSON(x) ==
  CASE x.t = "object" ->
         LET kept == SelectSeq(x.v, LAMBDA e : e.v.t \notin {"undefined", "function"})
         IN  Obj([i \in 1..Len(kept) |-> Entry(kept[i].k, toJSON(kept[i].v))])
    [] x.t = "array" -> Arr([i \in 1..Len(x.v) |-> toJSON(x.v[i])])
    [] x.t \in {"undefined", "function", "NaN", "Infinity", "-Infinity"} -> Null
    [] x.t = "error" -> Obj(<<>>)
    [] OTHER -> x

\* JSON.stringify(x): undefined for undefined and for a function, else the text
JSON_stringify(x) ==
  IF x.t \in {"undefined", "function"} THEN Undefined ELSE JsonText(toJSON(x))

\* JSON.parse(s) of a string: the value of a JSON text, a SyntaxError for
\* any other text
JSON_parse(s) == IF s.t = "json" THEN Returned(s.v) ELSE Thrown

\* isAlreadyNormalized(data); the in operator throws a TypeError when
\* data.metadata is a string, a number or true, and finds no requestId in an
\* array, an Error or a function
isAlreadyNormalized(data) ==
  IF /\ data.t = "object"
     /\ has(data, P.success)
     /\ has(data, P.metadata)
     /\ truthy(get(data, P.metadata))
     /\ get(data, P.metadata).t \notin {"object", "array", "error", "function"}
  THEN Thrown
  ELSE Returned(Bool(/\ data.t = "object"
                     /\ has(data, P.success)
                     /\ has(data, P.metadata)
                     /\ has(get(data, P.metadata), P.requestId)))

\* extractPagination(data), the pagination fields of data being integers
extractPagination(data) ==
  CASE ~truthy(data) \/ data.t \notin {"object", "array", "error"} -> Undefined
    [] truthy(get(data, P.pagination)) -> get(data, P.pagination)
    [] \/ get(data, P.page) # Undefined
       \/ get(data, P.limit) # Undefined
       \/ get(data, P.total) # Undefined ->
         Obj(<<Entry(P.page, or(get(data, P.page), Num(1))),
               Entry(P.limit, or(get(data, P.limit), Num(10))),
               Entry(P.total, or(get(data, P.total), Num(0))),
               Entry(P.totalPages,
                     or(get(data, P.totalPages),
                        ceilOfQuotient(or(get(data, P.total), Num(0)).v,
                                       or(get(data, P.limit), Num(10)).v))),
               Entry(P.hasNext, or(get(data, P.hasNext), Bool(FALSE))),
               Entry(P.hasPrev, or(get(data, P.hasPrev), Bool(FALSE)))>>)
    [] OTHER -> Undefined

\* NormalizationEngine.createRequestContext(requestId), uuidv4() giving uuid
createRequestContext(requestId, uuid, ms) ==
  [requestId |-> or(requestId, uuid), startTime |-> ms]

\* createRequestContext() of the middleware; an extractRequestId callback of
\* the model reads the header it names
expressRequestContext(rq, rs, opts, uuid, ms) ==
  [requestId |-> IF truthy(opts.extractRequestId)
                 THEN get(rq.headers, opts.extractRequestId.v)
                 ELSE or(get(rq.headers, H.x_request_id),
                         or(get(rq.headers, H.x_correlation_id),
                            createRequestContext(Undefined, uuid, ms).requestId)),
   startTime |-> rs.startTime]

\* originalSend.call(this, body), originalJson.call(this, body): the response
\* is sent
original(rs, via, body) ==
  [rs EXCEPT !.sent = Append(@, [via |-> via, body |-> body]), !.headersSent = TRUE]

\* the res.json the middleware installs
wrappedJson(cfg, proc, clock, rq, rs, opts, uuid, data) ==
  LET context == expressRequestContext(rq, rs, opts, uuid, clock[1])
  IN  CASE rs.headersSent -> original(rs, "json", data)
        [] rs.statusCode >= 400 ->
             LET r == normalizeError(cfg, proc, clock, data, context, Str(H.HTTP_ \o numberToString(rs.statusCode)),
                                     Undefined)
             IN  IF r.threw THEN original([rs EXCEPT !.errors = @ + 1], "json", data)
                 ELSE original(rs, "json", r.response)
        [] isAlreadyNormalized(data).threw -> original([rs EXCEPT !.errors = @ + 1], "json", data)
        [] isAlreadyNormalized(data).response.v -> original(rs, "json", data)
        [] OTHER ->
             original(rs, "json",
                      normalizeSuccess(cfg, proc, clock, data, context,
                                       IF opts.autoDetectPagination
                                       THEN extractPagination(data) ELSE Undefined))

\* the res.send the middleware installs, from the point where data is no
\* longer a string that has to be parsed
wrappedSendParsed(cfg, proc, clock, rs, opts, context, data) ==
  CASE isAlreadyNormalized(data).threw -> original([rs EXCEPT !.errors = @ + 1], "send", data)
    [] isAlreadyNormalized(data).response.v -> original(rs, "send", JSON_stringify(data))
    [] OTHER ->
         original([rs EXCEPT !.contentType = Str(H.application_json)], "send",
                  JSON_stringify(
                    normalizeSuccess(cfg, proc, clock, data, context,
                                     IF opts.autoDetectPagination
                                     THEN extractPagination(data) ELSE Undefined)))

\* the res.send the middleware installs
wrappedSend(cfg, proc, clock, rq, rs, opts, uuid, data) ==
  LET context == expressRequestContext(rq, rs, opts, uuid, clock[1])
  IN  CASE rs.headersSent -> original(rs, "send", data)
        [] rs.statusCode >= 400 ->
             LET r == normalizeError(cfg, proc, clock,
                                     IF data.t \in {"string", "json"}
                                     THEN Obj(<<Entry(P.message, data)>>)
                                     ELSE data,
                                     context, Str(H.HTTP_ \o numberToString(rs.statusCode)), Undefined)
             IN  IF r.threw THEN original([rs EXCEPT !.errors = @ + 1], "send", data)
                 ELSE original([rs EXCEPT !.contentType = Str(H.application_json)], "send",
                               JSON_stringify(r.response))
        [] data.t \in {"string", "json"} /\ JSON_parse(data).threw -> original(rs, "send", data)
        [] data.t \in {"string", "json"} ->
             wrappedSendParsed(cfg, proc, clock, rs, opts, context, JSON_parse(data).response)
        [] OTHER -> wrappedSendParsed(cfg, proc, clock, rs, opts, context, data)

\* res.json(data): the method the response holds
resJson(cfg, proc, clock, rq, rs, opts, uuid, data) ==
  IF rs.json = "wrapped" THEN wrappedJson(cfg, proc, clock, rq, rs, opts, uuid, data)
  ELSE original(rs, "json", data)

\* the call a request is in when the configuration has been changed since
Pending ==
  IF ret.op \in {"normalization.updateConfig", "sanitization.updateConfig"} THEN ret.before
  ELSE ret

\* the middleware of createNormalizationMiddleware(config, options) on a
\* request; the handler that next() starts takes the time elapsed. enabled is
\* what the test of config.enabled found
NormalizationMiddleware(elapsed) ==
  /\ calls = 0
  /\ ret.op = "new"
  /\ res' = IF ~normalization.enabled THEN [res EXCEPT !.next = @ + 1]
            ELSE [res EXCEPT !.send = "wrapped", !.json = "wrapped",
                             !.startTime = now, !.next = @ + 1]
  /\ now' = now + elapsed
  /\ ret' = [op |-> "normalizationMiddleware", enabled |-> normalization.enabled]
  /\ calls' = calls + 1
  /\ UNCHANGED <<engine, normalization, process, second, req, options, bound>>

\* ExpressNormalizationMiddleware.updateConfig(newConfig) while a request is
\* on its way: between the middleware and the response of the handler, or
\* between intercept and what the stream of the handler gives.
\* Object.assign changes the configuration object that the middleware, its
\* wrappers and the engines made from it read at each call; the class makes a
\* new engine from the same object. NormalizationEngine.updateConfig does the
\* same to the object that the engine and the interceptor of a Nest module share
NormalizationUpdateConfig(newConfig) ==
  /\ ret.op \in {"normalizationMiddleware", "intercept"}
  /\ normalization' = updateConfig(normalization, newConfig)
  /\ ret' = [op |-> "normalization.updateConfig", newConfig |-> newConfig, before |-> ret]
  /\ UNCHANGED <<engine, process, now, transport, second, calls>>

\* res.json(data) of the handler, once the middleware has run; entered is
\* what enabled was when it ran
ResJson(data, uuid, ticks) ==
  /\ calls = 1
  /\ Pending.op = "normalizationMiddleware"
  /\ res' = resJson(normalization, process, Readings(now, ticks), req, res, options, uuid, data)
  /\ now' = Readings(now, ticks)[3]
  /\ ret' = [op |-> "res.json", data |-> data, uuid |-> uuid, entered |-> Pending.enabled]
  /\ calls' = calls + 1
  /\ UNCHANGED <<engine, normalization, process, second, req, options, bound>>

\* res.send(data) of the handler, once the middleware has run
ResSend(data, uuid, ticks) ==
  /\ calls = 1
  /\ Pending.op = "normalizationMiddleware"
  /\ res' = IF res.send = "wrapped"
            THEN wrappedSend(normalization, process, Readings(now, ticks), req, res, options,
                             uuid, data)
            ELSE original(res, "send", data)
  /\ now' = Readings(now, ticks)[3]
  /\ ret' = [op |-> "res.send", data |-> data, uuid |-> uuid, entered |-> Pending.enabled]
  /\ calls' = calls + 1
  /\ UNCHANGED <<engine, normalization, process, second, req, options, bound>>

\* res.json(data) of the handler, the body the wrapper gives to the original
\* res.json being handed to the res.send of the same response before anything
\* is sent: as the JSON text of the body, or as the body itself. Each wrapper
\* makes a request context of its own: uuid is what uuidv4() gives to the
\* first, uuid2 what it gives to the second
ResJsonThenSend(data, uuid, uuid2, asText, ticks) ==
  /\ calls = 1
  /\ Pending.op = "normalizationMiddleware"
  /\ res.json = "wrapped"
  /\ \E first \in {wrappedJson(normalization, process, Readings(now, ticks), req, res, options,
                                uuid, data)} :
       \E body \in {first.sent[Len(first.sent)].body} :
         /\ res' = wrappedSend(normalization, process,
                               Readings(Readings(now, ticks)[3], ticks), req,
                               [first EXCEPT !.sent = res.sent, !.headersSent = res.headersSent],
                               options, uuid2,
                               IF asText THEN JSON_stringify(body) ELSE body)
         /\ ret' = [op |-> "res.json.send", data |-> data, uuid |-> uuid, uuid2 |-> uuid2,
                    envelope |-> body, asText |-> asText]
  /\ now' = Readings(Readings(now, ticks)[3], ticks)[3]
  /\ calls' = calls + 1
  /\ UNCHANGED <<engine, normalization, process, second, req, options, bound>>

\* the handler of ExpressNormalizationMiddleware.createErrorHandler() on an
\* error: when the headers are sent it calls next(error); else it makes the
\* context, the clock being read for startTime, has the error normalized under
\* error.code || 'INTERNAL_ERROR', sets the status and hands the envelope to
\* the res.json the response holds. Reading the code of null or undefined
\* throws a TypeError, and what normalizeError throws leaves the handler
ErrorHandler(error, uuid, ticks) ==
  /\ calls <= 1
  /\ ret.op # "sanitization.updateConfig"
  /\ Pending.op \in {"new", "normalizationMiddleware"}
  /\ \E clock \in {Readings(now, ticks)} :
       \E context \in {[requestId |-> or(get(req.headers, H.x_request_id), Str(H.unknown)),
                        startTime |-> clock[1]]} :
       \E r \in {IF error.t \in {"null", "undefined"} THEN Thrown
                 ELSE normalizeError(normalization, process, Tail(clock), error, context,
                                     or(get(error, P.code), Str(W.INTERNAL_ERROR)), Undefined)} :
       \E status \in {or(get(error, H.status), or(get(error, H.statusCode), Num(500))).v} :
         /\ res' = CASE res.headersSent -> [res EXCEPT !.next = @ + 1]
                     [] r.threw -> res
                     [] OTHER -> resJson(normalization, process, Readings(clock[4], Tail(ticks)), req,
                                         [res EXCEPT !.statusCode = status], options, uuid,
                                         r.response)
         /\ now' = CASE res.headersSent -> now
                     [] r.threw -> clock[1]
                     [] OTHER -> Readings(clock[4], Tail(ticks))[3]
         /\ ret' = [op |-> "errorHandler", error |-> error, uuid |-> uuid,
                    passed |-> res.headersSent,
                    threw |-> ~res.headersSent /\ r.threw,
                    envelope |-> IF res.headersSent THEN Undefined ELSE r.response]
         /\ calls' = calls + 1
         /\ UNCHANGED <<engine, normalization, process, second, req, options, bound>>

-----------------------------------------------------------------------------
(* The Nest interceptor: src/src/nestjs/normalization.interceptor.ts *)

\* extractRequestId(request), uuidv4() giving uuid
extractRequestId(rq, uuid, ms) ==
  or(get(rq.headers, H.x_request_id),
     or(get(rq.headers, H.x_correlation_id),
        or(get(rq.headers, H.x_trace_id),
           createRequestContext(Undefined, uuid, ms).requestId)))

\* handleSuccess(data, context, options)
handleSuccess(cfg, proc, clock, data, context) ==
  LET pagination == extractPagination(data)
      actualData == IF truthy(pagination)
                    THEN or(get(data, P.data), or(get(data, P.items), data))
                    ELSE data
  IN  CASE isAlreadyNormalized(data).threw -> Thrown
        [] isAlreadyNormalized(data).response.v -> Returned(data)
        [] OTHER -> Returned(normalizeSuccess(cfg, proc, clock, actualData, context, pagination))

\* handleError(error, context, options)
handleError(cfg, proc, clock, error, context) ==
  LET response == get(error, P.response)
      code == CASE truthy(response) ->
                     or(get(response, P.code), get(get(response, P.error), P.code))
                [] truthy(get(error, P.code)) -> get(error, P.code)
                [] OTHER -> Undefined
      details == CASE truthy(response) ->
                        or(get(response, P.details), get(response, P.message))
                   [] truthy(get(error, P.code)) -> get(error, P.details)
                   [] OTHER -> Undefined
  IN  CASE isAlreadyNormalized(error).threw -> Thrown
        [] isAlreadyNormalized(error).response.v -> Returned(error)
        [] error.t \in {"null", "undefined"} -> Thrown
        [] OTHER -> normalizeError(cfg, proc, clock, error, context, code, details)

\* the catchError of intercept: the stream fails with what handleError
\* returns, or, under "throw", with the TypeError handleError raised
caughtError(cfg, proc, clock, error, context) ==
  IF handleError(cfg, proc, clock, error, context).threw THEN [kind |-> "throw", value |-> Undefined]
  ELSE [kind |-> "error", value |-> handleError(cfg, proc, clock, error, context).response]

\* createRequestContext(request) of the interceptor, uuidv4() giving uuid
interceptorRequestContext(rq, uuid, ms) ==
  [requestId |-> extractRequestId(rq, uuid, ms), startTime |-> ms]

\* next.handle().pipe(map(...), catchError(...)), the stream of next.handle()
\* giving outcome: a value it emits ("next") or an error it fails with
\* ("error"). What handleSuccess throws inside map, the TypeError of the in
\* operator, reaches catchError as any error of the stream: the TypeError that
\* 'requestId' in data.metadata throws, metadata being a string, a number or
\* true, has a message that ends with the metadata as a string and a stack
\* that starts with its name and message. What follows them in the stack is
\* the runtime's: frames, the lines it writes for the calls under way, with
\* the files and the positions of the build that runs
pipe(cfg, proc, clock, context, outcome, frames) ==
  LET metadata == get(outcome.value, P.metadata)
      text == CASE metadata.t = "number" -> numberToString(metadata.v)
                [] metadata.t = "boolean" -> <<"t", "r", "u", "e">>
                [] OTHER -> metadata.v
      message == H.in_operator \o text
      inOperatorError == Err(Str(H.TypeError), Str(message),
                             Str(H.TypeError \o <<":", " ">> \o message \o frames))
  IN  CASE outcome.kind = "error" -> caughtError(cfg, proc, clock, outcome.value, context)
        [] handleSuccess(cfg, proc, clock, outcome.value, context).threw ->
             caughtError(cfg, proc, clock, inOperatorError, context)
        [] OTHER -> [kind |-> "next",
                     value |-> handleSuccess(cfg, proc, clock, outcome.value, context).response]

\* intercept(context, next): the stream of the handler when enabled is false,
\* else that stream piped through handleSuccess and handleError with the
\* request context made now
Intercept(uuid) ==
  /\ calls = 0
  /\ ret.op = "new"
  /\ ret' = [op |-> "intercept", uuid |-> uuid, enabled |-> normalization.enabled,
             stream |-> IF normalization.enabled THEN "piped" ELSE "handler",
             context |-> IF normalization.enabled
                         THEN interceptorRequestContext(req, uuid, now)
                         ELSE [requestId |-> Undefined, startTime |-> 0]]
  /\ calls' = calls + 1
  /\ UNCHANGED <<engine, normalization, process, now, second, transport>>

\* the stream intercept returned gives what comes of outcome, the handler
\* having taken the time elapsed: handleSuccess and handleError run now, under
\* the configuration as it is now, and frames is what the runtime writes in
\* the stack of an error made now
Emit(outcome, frames, elapsed, ticks) ==
  /\ calls = 1
  /\ Pending.op = "intercept"
  /\ ret' = [op |-> "emit", outcome |-> outcome, uuid |-> Pending.uuid,
             entered |-> Pending.enabled, stream |-> Pending.stream,
             out |-> IF Pending.stream = "handler" THEN outcome
                     ELSE pipe(normalization, process, Readings(now + elapsed, ticks),
                               Pending.context, outcome, frames)]
  /\ now' = Readings(now + elapsed, ticks)[3]
  /\ calls' = calls + 1
  /\ UNCHANGED <<engine, normalization, process, second, transport>>

-----------------------------------------------------------------------------
(* The adapters of the sanitization engine: src/src/nestjs/sanitization.pipe.ts
   and createSanitizationMiddleware of src/src/decorators/sanitize.decorator.ts *)

\* the literals of the two adapters
M ==
  [SANITIZATION_VIOLATION |-> <<"S", "A", "N", "I", "T", "I", "Z", "A", "T", "I", "O", "N", "_", "V", "I", "O", "L", "A", "T", "I", "O", "N">>,
   SANITIZATION_ERROR |-> <<"S", "A", "N", "I", "T", "I", "Z", "A", "T", "I", "O", "N", "_", "E", "R", "R", "O", "R">>,
   validation_failed |-> <<"I", "n", "p", "u", "t", " ", "v", "a", "l", "i", "d", "a", "t", "i", "o", "n", " ", "f", "a", "i", "l", "e", "d">>,
   sanitization_failed |-> <<"I", "n", "p", "u", "t", " ", "s", "a", "n", "i", "t", "i", "z", "a", "t", "i", "o", "n", " ", "f", "a", "i", "l", "e", "d">>,
   internal_error |-> <<"I", "n", "t", "e", "r", "n", "a", "l", " ", "s", "a", "n", "i", "t", "i", "z", "a", "t", "i", "o", "n", " ", "e", "r", "r", "o", "r">>,
   violations |-> <<"v", "i", "o", "l", "a", "t", "i", "o", "n", "s">>,
   unknown |-> <<"u", "n", "k", "n", "o", "w", "n">>,
   sensitiveHeaders |-> {<<"a", "u", "t", "h", "o", "r", "i", "z", "a", "t", "i", "o", "n">>, <<"c", "o", "o", "k", "i", "e">>, <<"s", "e", "t", "-", "c", "o", "o", "k", "i", "e">>}]

\* an array of strings
stringArray(strings) == Arr([i \in 1..Len(strings) |-> Str(strings[i])])

\* this.options?.rules || this.config.rules: the rules of the options of the
\* pipe, else those of the configuration
rulesOf(cfg, opts) == IF truthy(opts.rules) THEN opts.rules.v ELSE cfg.rules

\* const { rules = config.rules } = options, which runs once, when the
\* middleware is made: the default stands in for undefined only, so that a
\* rules of null is what the middleware hands to sanitize. The array bound is
\* the one config.rules or options.rules held then: own is that array once
\* config.rules holds another, undefined until then
middlewareRules(cfg, opts, own) ==
  CASE own # Undefined -> own
    [] opts.rules = Undefined -> Arr(cfg.rules)
    [] OTHER -> opts.rules

\* a variant of transform that does not look at enabled
pipeTransform_enabled(cfg, registry, cache, opts, value) ==
  LET result == sanitize(cfg, registry, cache, value, rulesOf(cfg, opts))
  IN  CASE value.t \in {"null", "undefined"} ->
             [threw |-> FALSE, response |-> value, ran |-> FALSE]
        [] result.threw ->
             [threw |-> TRUE,
              response |-> Obj(<<Entry(P.message, Str(M.sanitization_failed)),
                                 Entry(P.error, Str(result.error)),
                                 Entry(P.code, Str(M.SANITIZATION_ERROR))>>),
              ran |-> TRUE]
        [] cfg.strictMode /\ Len(result.violations) > 0 ->
             [threw |-> TRUE,
              response |-> Obj(<<Entry(P.message, Str(M.validation_failed)),
                                 Entry(M.violations, stringArray(result.violations)),
                                 Entry(P.code, Str(M.SANITIZATION_VIOLATION))>>),
              ran |-> TRUE]
        [] OTHER -> [threw |-> FALSE, response |-> result.sanitized, ran |-> TRUE]

\* transform(value, metadata): the value returned, or the response of the
\* BadRequestException thrown; ran tells whether the engine was called
pipeTransform(cfg, registry, cache, opts, value) ==
  LET result == sanitize(cfg, registry, cache, value, rulesOf(cfg, opts))
  IN  CASE ~cfg.enabled \/ value.t \in {"null", "undefined"} ->
             [threw |-> FALSE, response |-> value, ran |-> FALSE]
        [] result.threw ->
             [threw |-> TRUE,
              response |-> Obj(<<Entry(P.message, Str(M.sanitization_failed)),
                                 Entry(P.error, Str(result.error)),
                                 Entry(P.code, Str(M.SANITIZATION_ERROR))>>),
              ran |-> TRUE]
        [] cfg.strictMode /\ Len(result.violations) > 0 ->
             [threw |-> TRUE,
              response |-> Obj(<<Entry(P.message, Str(M.validation_failed)),
                                 Entry(M.violations, stringArray(result.violations)),
                                 Entry(P.code, Str(M.SANITIZATION_VIOLATION))>>),
              ran |-> TRUE]
        [] OTHER -> [threw |-> FALSE, response |-> result.sanitized, ran |-> TRUE]

\* the configuration and the options once sanitize has sorted, in place, the
\* rules it was given
configAfter(cfg, opts) ==
  IF truthy(opts.rules) THEN cfg ELSE [cfg EXCEPT !.rules = sortedRules(cfg.rules)]

optionsAfter(cfg, opts) ==
  IF truthy(opts.rules) THEN [opts EXCEPT !.rules = Arr(sortedRules(opts.rules.v))] ELSE opts

\* SanitizationPipe.transform(value, metadata)
PipeTransform(value) ==
  \E out \in {pipeTransform(config, rulesCache, compiledRulesCache, options, value)} :
    /\ calls = 0
    /\ ret' = [op |-> "transform", value |-> value, threw |-> out.threw,
               response |-> out.response, ran |-> out.ran]
    /\ compiledRulesCache' = IF out.ran
                             THEN cacheAfter(rulesOf(config, options), rulesCache,
                                             compiledRulesCache)
                             ELSE compiledRulesCache
    /\ config' = IF out.ran THEN configAfter(config, options) ELSE config
    /\ options' = IF out.ran THEN optionsAfter(config, options) ELSE options
    /\ calls' = calls + 1
    /\ UNCHANGED <<rulesCache, normalization, process, second, now, req, res, bound>>

\* Object.assign(target, source), from the i-th property of source on
RECURSIVE assign(_, _, _)
assign(target, source, i) ==
  IF i > Len(source.v) THEN target
  ELSE assign(spread(target, source.v[i].k, source.v[i].v), source, i + 1)

\* one part of the request sanitized by the middleware: st holds the request,
\* the violations found so far, the cache, whether sanitize has thrown, and
\* whether it was called; of the headers all but the sensitive ones are
\* sanitized. rules is the value the middleware hands to sanitize, an array or
\* null: with null, rules.sort() throws a TypeError before anything is done
sanitizePart(cfg, registry, rules, st, part, wanted) ==
  LET data == IF part = "headers"
              THEN Obj(SelectSeq(st.rq.headers.v,
                                 LAMBDA e : toLowerCase(e.k) \notin M.sensitiveHeaders))
              ELSE st.rq[part]
      result == IF rules.t = "array" THEN sanitize(cfg, registry, st.cache, data, rules.v)
                ELSE [threw |-> TRUE, sanitized |-> Undefined, violations |-> <<>>]
      cache == IF rules.t = "array" THEN cacheAfter(rules.v, registry, st.cache) ELSE st.cache
  IN  CASE st.threw \/ ~wanted \/ ~truthy(st.rq[part]) -> st
        [] result.threw -> [st EXCEPT !.threw = TRUE, !.ran = TRUE, !.cache = cache]
        [] OTHER ->
             [st EXCEPT !.rq[part] = IF part = "headers"
                                     THEN assign(st.rq.headers, result.sanitized, 1)
                                     ELSE result.sanitized,
                        !.allViolations = @ \o result.violations,
                        !.ran = TRUE,
                        !.cache = cache]

\* the body of the response the middleware sends with the status 400
violationResponse(rq, ms, allViolations) ==
  Obj(<<Entry(P.success, Bool(FALSE)),
        Entry(P.error,
              Obj(<<Entry(P.code, Str(M.SANITIZATION_VIOLATION)),
                    Entry(P.message, Str(M.validation_failed)),
                    Entry(M.violations, stringArray(allViolations)),
                    Entry(P.timestamp, Str(toISOString(ms))),
                    Entry(P.requestId, or(get(rq.headers, H.x_request_id),
                                          Str(M.unknown)))>>))>>)

\* the body of the response the middleware sends with the status 500
errorResponse(rq, ms) ==
  Obj(<<Entry(P.success, Bool(FALSE)),
        Entry(P.error,
              Obj(<<Entry(P.code, Str(M.SANITIZATION_ERROR)),
                    Entry(P.message, Str(M.internal_error)),
                    Entry(P.timestamp, Str(toISOString(ms))),
                    Entry(P.requestId, or(get(rq.headers, H.x_request_id),
                                          Str(M.unknown)))>>))>>)

\* ExpressSanitizationMiddleware.updateConfig(newConfig) before a request
\* comes, the middleware having been made by middleware(): Object.assign
\* changes the configuration object that the middleware and its engine read
\* at each request. A rules in newConfig puts another array in config.rules:
\* the middleware keeps the array it bound from config.rules when it was
\* made. The engine the class makes anew is the one addCustomRule goes to,
\* which is not the engine of the middleware
SanitizationUpdateConfig(newConfig) ==
  /\ ret.op = "new"
  /\ config' = updateConfig(config, newConfig)
  /\ bound' = IF "rules" \in DOMAIN newConfig /\ options.rules = Undefined
                 /\ bound = Undefined
              THEN Arr(config.rules)
              ELSE bound
  /\ ret' = [op |-> "sanitization.updateConfig", newConfig |-> newConfig, before |-> ret]
  /\ UNCHANGED <<rulesCache, compiledRulesCache, normalization, process, now, req, res,
                 options, second, calls>>

\* the middleware of createSanitizationMiddleware(config, options) on a
\* request, downstream being what next() starts: it returns, or it throws each
\* time it is called. res.json is the method the response holds at that time,
\* the status is 0 when the middleware sends no response, and body is what it
\* gives to res.json. The rules are those bound when the middleware was made;
\* sanitize sorts that array in place. What is thrown
\* inside the try block, by sanitize, by onViolation or by next(), is caught;
\* what next() throws outside it, or in the catch block, leaves the middleware.
\* The clock is read when the body of a response is made, and after ticks[1]
\* by the res.json that sends it
SanitizationMiddleware(uuid, nextThrows, ticks) ==
  /\ calls <= 1
  /\ Pending.op \in {"new", "normalizationMiddleware"}
  /\ \E rules \in {middlewareRules(config, options, bound)} :
       \E s1 \in {sanitizePart(config, rulesCache, rules,
                               [rq |-> req, allViolations |-> <<>>, cache |-> compiledRulesCache,
                                threw |-> FALSE, ran |-> FALSE],
                               "body", options.sanitizeBody)} :
       \E s2 \in {sanitizePart(config, rulesCache, rules, s1, "query", options.sanitizeQuery)} :
       \E s3 \in {sanitizePart(config, rulesCache, rules, s2, "params", options.sanitizeParams)} :
       \E st \in {sanitizePart(config, rulesCache, rules, s3, "headers", options.sanitizeHeaders)} :
       \E notified \in {~st.threw /\ Len(st.allViolations) > 0 /\ truthy(options.onViolation)} :
       \E threwInTry \in {st.threw \/ (notified /\ options.onViolation.v = "throws")} :
       \E rejected \in {/\ ~threwInTry
                        /\ Len(st.allViolations) > 0
                        /\ config.strictMode
                        /\ config.rejectOnViolation} :
       \E caught \in {threwInTry \/ (~rejected /\ nextThrows)} :
       \E status \in {CASE ~config.enabled -> 0
                        [] caught /\ config.strictMode -> 500
                        [] rejected -> 400
                        [] OTHER -> 0} :
       \E nextCalls \in {CASE ~config.enabled -> 1
                           [] OTHER -> (IF ~threwInTry /\ ~rejected THEN 1 ELSE 0)
                                       + (IF caught /\ ~config.strictMode THEN 1 ELSE 0)} :
         /\ ret' = [op |-> "sanitizationMiddleware", ran |-> config.enabled /\ st.ran,
                    status |-> status, uuid |-> uuid,
                    notified |-> config.enabled /\ notified,
                    nextThrows |-> nextThrows,
                    threw |-> nextThrows /\ (~config.enabled \/ (caught /\ ~config.strictMode)),
                    body |-> CASE status = 500 -> errorResponse(st.rq, now)
                               [] status = 400 -> violationResponse(st.rq, now, st.allViolations)
                               [] OTHER -> Undefined]
         /\ req' = IF config.enabled THEN st.rq ELSE req
         /\ res' = IF status # 0
                   THEN resJson(normalization, process, Tail(Readings(now, ticks)), st.rq,
                                [res EXCEPT !.statusCode = status, !.next = @ + nextCalls],
                                options, uuid,
                                IF status = 500 THEN errorResponse(st.rq, now)
                                ELSE violationResponse(st.rq, now, st.allViolations))
                   ELSE [res EXCEPT !.next = @ + nextCalls]
         /\ compiledRulesCache' = IF config.enabled THEN st.cache ELSE compiledRulesCache
         /\ config' = IF config.enabled /\ st.ran /\ bound = Undefined
                         /\ options.rules = Undefined
                      THEN [config EXCEPT !.rules = sortedRules(@)]
                      ELSE config
         /\ options' = IF config.enabled /\ st.ran /\ bound = Undefined
                          /\ options.rules.t = "array"
                       THEN [options EXCEPT !.rules = Arr(sortedRules(@.v))]
                       ELSE options
         /\ bound' = IF config.enabled /\ st.ran /\ bound # Undefined
                     THEN Arr(sortedRules(bound.v))
                     ELSE bound
         /\ now' = IF status # 0 THEN Readings(now, ticks)[4] ELSE now
         /\ calls' = calls + 1
         /\ UNCHANGED <<rulesCache, normalization, process, second>>

-----------------------------------------------------------------------------
(* Two instances of each engine *)

\* NormalizationEngine.updateConfig(newConfig) on the first engine
UpdateConfig(newConfig) ==
  /\ calls < MaxCalls
  /\ normalization' = updateConfig(normalization, newConfig)
  /\ ret' = [op |-> "updateConfig", newConfig |-> newConfig]
  /\ calls' = calls + 1
  /\ UNCHANGED <<engine, process, now, transport, second>>

\* the configuration objects the second engines hold
secondNormalization == IF second.same THEN normalization ELSE second.normalization

secondConfig == IF second.same THEN config ELSE second.config

\* normalizeSuccess(data, context) on the second NormalizationEngine
SecondNormalizeSuccess(data, context, ticks) ==
  /\ calls < MaxCalls
  /\ ret' = [normalizeSuccessCall(data, context, Undefined,
                                  normalizeSuccess(secondNormalization, process,
                                                   Readings(now, ticks), data, context,
                                                   Undefined))
               EXCEPT !.op = "second.normalizeSuccess", !.clock = Readings(now, ticks)]
  /\ now' = Readings(now, ticks)[2]
  /\ calls' = calls + 1
  /\ UNCHANGED <<engine, normalization, process, second, transport>>

\* sanitize(data) on the second SanitizationEngine: the rules are those of
\* its configuration, which the call sorts in place
SecondSanitize(data) ==
  /\ calls < MaxCalls
  /\ ret' = [sanitize(secondConfig, second.rulesCache, second.compiledRulesCache, data,
                      secondConfig.rules)
               EXCEPT !.op = "second.sanitize", !.usedDefault = TRUE]
  /\ second' = [second EXCEPT
                  !.compiledRulesCache = cacheAfter(secondConfig.rules, second.rulesCache, @),
                  !.config = IF second.same THEN @
                             ELSE [@ EXCEPT !.rules = sortedRules(@)]]
  /\ config' = IF second.same THEN [config EXCEPT !.rules = sortedRules(@)] ELSE config
  /\ calls' = calls + 1
  /\ UNCHANGED <<rulesCache, compiledRulesCache, normalization, process, now, transport>>

-----------------------------------------------------------------------------
(* Spec: one engine over its lifetime, called by one caller *)

S_john == <<" ", " ", "J", "O", "H", "N", "@", "E", "X", "A", "M", "P", "L", "E", ".", "C", "O", "M", " ", " ">>
S_bold == <<"<", "b", ">", "o", "n", "l", "o", "a", "d", "<", "/", "b", ">">>
S_test == <<"a", " ", "t", "e", "s", "t">>
N_constructor == <<"c", "o", "n", "s", "t", "r", "u", "c", "t", "o", "r">>
N_bogus == <<"b", "o", "g", "u", "s">>
N_html_trim == <<"h", "t", "m", "l", ",", "t", "r", "i", "m">>
N_test_rule == <<"t", "e", "s", "t", "-", "r", "u", "l", "e">>

\* DEFAULT_CONFIG.sanitization.rules
DEFAULT_RULES == <<N.html, N.script, N.xss, N.trim>>

\* the custom rule of the engine's tests: a transform and no validate
TestRule == Rule(N_test_rule, "test-rule", "none")

\* the configurations an engine is constructed with
Configs ==
  [rules : {DEFAULT_RULES},
   customRules : {<<>>},
   strictMode : BOOLEAN,
   logViolations : BOOLEAN,
   rejectOnViolation : BOOLEAN]

\* the values and the rule-name arrays the caller passes
EngineData == {Str(S_john), Str(S_bold), Str(S_test)}

EngineRuleLists ==
  { <<N.email_normalize, N.trim>>, <<N.trim, N.email_normalize>>,
    <<N.html, N.trim>>, <<N_html_trim>>, <<N.html, N_bogus>>, <<>> }

ConfigRuleLists == { <<N.html, N.trim>>, <<N_bogus, N.html, N_test_rule>>, <<N_html_trim>> }

Init ==
  /\ config \in Configs
  /\ rulesCache = initializeRules(config.customRules)
  /\ compiledRulesCache = EmptyMap
  /\ InitHost
  /\ ret = [op |-> "new"]
  /\ InitTransport
  /\ InitSecond
  /\ calls = 0

Next ==
  \/ \E data \in EngineData : \E rules \in EngineRuleLists : Sanitize(data, rules)
  \/ \E data \in EngineData : SanitizeDefault(data)
  \/ SanitizeAgain
  \/ AddCustomRule(TestRule)
  \/ \E ruleName \in {N.trim, N_test_rule} : RemoveRule(ruleName)
  \/ \E rules \in ConfigRuleLists : ValidateConfig(rules)

Spec == Init /\ [][Next]_vars

-----------------------------------------------------------------------------
(* SpecStrings: a fresh engine sanitizes one string, then what it returned *)

F_script_open == <<"<", "s", "c", "r", "i", "p", "t", ">">>
F_script_close == <<"<", "/", "s", "c", "r", "i", "p", "t", ">">>
F_lt == <<"<">>
F_gt == <<">">>
F_on == <<"o", "n">>
F_onload == <<"o", "n", "l", "o", "a", "d">>
F_load == <<"l", "o", "a", "d">>

\* the pieces the input strings are put together from
Fragments == {F_script_open, F_script_close, F_lt, F_gt, F_on, F_onload, F_load}

\* the number of pieces of an input string
MaxFragments == 3

\* the strings made of n pieces
RECURSIVE StringsOf(_)
StringsOf(n) ==
  IF n = 0 THEN {<<>>}
  ELSE {f \o s : f \in Fragments, s \in StringsOf(n - 1)}

Strings == UNION {StringsOf(n) : n \in 0..MaxFragments}

StringRuleLists ==
  { <<N.script>>, <<N.xss>>, <<N.xss, N.html>>,
    DEFAULT_RULES,
    <<N.html, N.script, N.sql, N.xss, N.trim, N.email_normalize, N.phone_normalize,
      N.url_validate, N.path_traversal, N.command_injection>> }

InitStrings ==
  /\ config \in [rules : {DEFAULT_RULES},
                 customRules : {<<>>},
                 strictMode : {TRUE},
                 logViolations : {FALSE},
                 rejectOnViolation : BOOLEAN]
  /\ rulesCache = initializeRules(config.customRules)
  /\ compiledRulesCache = EmptyMap
  /\ InitHost
  /\ ret = [op |-> "new"]
  /\ InitTransport
  /\ InitSecond
  /\ calls = 0

\* addresses with letters beyond ASCII: a capital with an accent, a word
\* that ends in a capital sigma, a capital that lowers to two code units
Accented ==
  { <<"U+00C9", "C", "O", "L", "E", "@", "X", ".", "F", "R">>,
    <<"U+039F", "U+0394", "U+039F", "U+03A3", "@", "x", ".", "g", "r">>,
    <<"U+0130", "@", "x", ".", "t", "r">> }

NextStrings ==
  \/ \E s \in Strings \cup Accented : \E rules \in StringRuleLists :
       calls = 0 /\ Sanitize(Str(s), rules)
  \/ calls = 1 /\ SanitizeAgain

SpecStrings == InitStrings /\ [][NextStrings]_vars

-----------------------------------------------------------------------------
(* The traversal on nested values: one engine, one call of sanitize on an
   array or object of strings, numbers, booleans, null and undefined *)

S_italic == <<"<", "i", ">", "x", "<", "/", "i", ">">>
K_a == <<"a">>
K_b == <<"b">>

MaxWidth == 2
MaxDepth == 3

Leaves == {Str(S_italic), Num(7), Bool(TRUE), Null, Undefined}

\* the keys of the objects: two names, and the empty string
Keys == {K_a, K_b, <<>>}

\* the sequences of at most n elements of S
SeqsUpTo(S, n) == UNION {[1..m -> S] : m \in 0..n}

\* the sequences of at most n different keys
KeySeqs(n) == {ks \in SeqsUpTo(Keys, n) : \A i, j \in 1..Len(ks) : i # j => ks[i] # ks[j]}

\* the arrays and the objects whose elements are of S
ArraysOf(S, n) == {Arr(items) : items \in SeqsUpTo(S, n)}
ObjectsOf(S, n) ==
  {Obj([i \in 1..Len(ks) |-> Entry(ks[i], vs[i])]) :
     <<ks, vs>> \in {p \in KeySeqs(n) \X SeqsUpTo(S, n) : Len(p[1]) = Len(p[2])}}

\* a value inside a one-element array or a one-key object
Wrapped(S) == {Arr(<<v>>) : v \in S} \cup {Obj(<<Entry(k, v)>>) : k \in Keys, v \in S}

\* the leaves, and the leaves inside d containers of one element each
RECURSIVE ValuesOf(_)
ValuesOf(d) ==
  IF d = 0 THEN Leaves ELSE Wrapped(ValuesOf(d - 1))

\* arrays and objects of leaves
Flat == ArraysOf(Leaves, MaxWidth) \cup ObjectsOf(Leaves, MaxWidth)

\* arrays and objects whose elements are strings, containers of a string, or null
Branching ==
  LET strings == {Str(S_italic), Str(S_bold)}
      inner == strings \cup Wrapped(strings) \cup {Null}
  IN  ArraysOf(inner, MaxWidth) \cup ObjectsOf(inner, MaxWidth)

\* objects as JSON.parse gives them for a text with the key "__proto__": the
\* key names a property of the object itself
Parsed ==
  {Obj(<<Entry(__proto__, v), Entry(K_a, Str(S_italic))>>) :
     v \in {Str(S_italic), Obj(<<Entry(K_b, Str(S_italic))>>)}}

Values == UNION {ValuesOf(d) : d \in 0..MaxDepth} \cup Flat \cup Branching \cup Parsed

ValueRuleLists == { <<N.html>>, <<N.xss, N.html>>, DEFAULT_RULES }

InitValues ==
  /\ config \in [rules : {DEFAULT_RULES},
                 customRules : {<<>>},
                 strictMode : {FALSE},
                 logViolations : BOOLEAN,
                 rejectOnViolation : {TRUE}]
  /\ rulesCache = initializeRules(config.customRules)
  /\ compiledRulesCache = EmptyMap
  /\ InitHost
  /\ ret = [op |-> "new"]
  /\ InitTransport
  /\ InitSecond
  /\ calls = 0

NextValues ==
  \E data \in Values : \E rules \in ValueRuleLists :
    calls = 0 /\ Sanitize(data, rules)

SpecValues == InitValues /\ [][NextValues]_vars

-----------------------------------------------------------------------------
(* The details of an error: one NormalizationEngine, one call of normalizeError
   with details that are a string, a number, an array or an object *)

K_password == <<"p", "a", "s", "s", "w", "o", "r", "d">>
K_token == <<"t", "o", "k", "e", "n">>
K_nested == <<"n", "e", "s", "t", "e", "d">>
K_ok == <<"o", "k">>
K_ApiKey == <<"A", "p", "i", "K", "e", "y">>

S_boom == <<"b", "o", "o", "m">>
S_Error == <<"E", "r", "r", "o", "r">>
S_at == <<"E", "r", "r", "o", "r", ":", " ", "b", "o", "o", "m", "\n", " ", "a", "t", " ", "f">>
S_E == <<"E">>
S_r1 == <<"r", "1">>

DetailKeys == {K_password, K_token, K_nested, K_ok, K_ApiKey}

DetailStrings == {Str(<<"x">>), Str(<<"y">>), Str(<<"z">>)}

\* the objects of at most n properties, named by different keys of K, valued in S
ObjectsOver(K, S, n) ==
  {Obj([i \in 1..Len(ks) |-> Entry(ks[i], vs[i])]) :
     <<ks, vs>> \in {p \in SeqsUpTo(K, n) \X SeqsUpTo(S, n) :
                       /\ Len(p[1]) = Len(p[2])
                       /\ \A i, j \in 1..Len(p[1]) : i # j => p[1][i] # p[1][j]}}

\* no details, a string or a number, flat arrays and objects, and objects and
\* arrays around an object
Details ==
  LET flat == ObjectsOver(DetailKeys, {Str(<<"x">>), Num(0)}, MaxWidth)
      inner == ObjectsOver({K_token, K_ok}, {Str(<<"y">>), Str(<<"z">>)}, MaxWidth)
      single == ObjectsOver(DetailKeys, {Str(<<"x">>)}, 1)
  IN  {Undefined, Num(0)} \cup DetailStrings
      \cup flat \cup ArraysOf(DetailStrings \cup {Num(0)}, MaxWidth)
      \cup {Obj(<<Entry(ks[1], Str(<<"x">>)), Entry(ks[2], o)>>) :
              ks \in {<<K_password, K_nested>>, <<K_nested, K_password>>,
                      <<K_nested, K_ok>>}, o \in inner}
      \cup {Obj(<<Entry(k, o)>>) : k \in DetailKeys, o \in single}
      \cup {Arr(<<o>>) : o \in single}
      \* an Error, and an object as JSON.parse gives it for the key "__proto__"
      \cup {Err(Str(S_Error), Str(S_boom), Str(S_at)),
             Obj(<<Entry(K_ok, Err(Str(S_Error), Str(S_boom), Str(S_at)))>>),
             Obj(<<Entry(__proto__, Obj(<<Entry(K_ok, Str(<<"z">>))>>)),
                   Entry(K_ok, Str(<<"z">>))>>)}
      \* keys written with the Kelvin sign, whose lower case is the letter k
      \cup {Obj(<<Entry(<<"U+212A", "e", "y">>, Str(<<"x">>)), Entry(K_ok, Num(0))>>),
             Obj(<<Entry(K_nested, Obj(<<Entry(<<"T", "O", "U+212A", "E", "N">>, Str(<<"y">>))>>))>>)}

Errors == {Err(Str(S_Error), Str(S_boom), Str(S_at)), Str(S_boom)}

Contexts == {[requestId |-> Str(S_r1), startTime |-> 1000]}

InitErrors ==
  /\ config = [rules |-> DEFAULT_RULES, customRules |-> <<>>, strictMode |-> FALSE,
               logViolations |-> TRUE, rejectOnViolation |-> FALSE]
  /\ rulesCache = initializeRules(config.customRules)
  /\ compiledRulesCache = EmptyMap
  /\ normalization \in {[DEFAULT_NORMALIZATION EXCEPT !.errorFormat = f, !.includeDebugInfo = d] :
                           f \in {"simple", "standard", "detailed"}, d \in BOOLEAN}
  /\ process \in Processes
  /\ now = 1500
  /\ ret = [op |-> "new"]
  /\ InitTransport
  /\ InitSecond
  /\ calls = 0

NextErrors ==
  \E error \in Errors : \E context \in Contexts : \E details \in Details :
    \E ticks \in Ticks :
      calls = 0 /\ NormalizeError(error, context, Str(S_E), details, ticks)

SpecErrors == InitErrors /\ [][NextErrors]_vars

-----------------------------------------------------------------------------
(* Helpers of the properties *)

Range(seq) == {seq[i] : i \in 1..Len(seq)}

RuleNames(rules) == [i \in 1..Len(rules) |-> rules[i].name]

\* the names of a rule-name array that are registered, in the order of the array
Registered(names, registry) == SelectSeq(names, LAMBDA n : n \in DOMAIN registry)

\* the string leaves of a value, in depth-first order
RECURSIVE StringLeaves(_)
RECURSIVE StringLeavesOf(_, _)
StringLeaves(value) ==
  CASE value.t = "string" -> <<value.v>>
    [] value.t \in {"array", "object"} -> StringLeavesOf(value, 1)
    [] OTHER -> <<>>

StringLeavesOf(value, i) ==
  IF i > Len(value.v) THEN <<>>
  ELSE StringLeaves(IF value.t = "array" THEN value.v[i] ELSE value.v[i].v)
       \o StringLeavesOf(value, i + 1)

\* the string holds an HTML tag: a "<", and a ">" after it
HasTag(s) == \E i \in 1..Len(s) : \E j \in (i + 1)..Len(s) : s[i] = "<" /\ s[j] = ">"

\* the string holds one of the words of the xss rule, in any case
HasXssWord(s) == \E k \in 1..Len(L.xss_words) : includesCI(s, L.xss_words[k])

\* the string holds <script>, and </script> after it
HasClosedScript(s) ==
  \E i \in 1..Len(s) : \E j \in (i + Len(F_script_open))..Len(s) :
    StartsWithAt(s, i, F_script_open) /\ StartsWithAt(s, j, F_script_close)

-----------------------------------------------------------------------------
(* C1 - C9 *)

\* C1: sanitize applies the rules in the order of the caller's rule-name list
\* (or of config.rules): the rules the traversal applies are the registered
\* names of the list, in the order of the list; and '  JOHN@EXAMPLE.COM  ' with
\* ['trim', 'email-normalize'] records no violation.
C1_CallerOrder ==
  ret.op = "sanitize" =>
    /\ RuleNames(ret.applied) = Registered(ret.rules, rulesCache)
    /\ (ret.data = Str(S_john) /\ ret.rules = <<N.trim, N.email_normalize>>
          => ret.found = <<>>)

\* C2: sanitize fails if and only if strictMode and rejectOnViolation are enabled
\* and a violation was recorded; the message of the error lists the type of every
\* recorded violation, comma-joined, in recording order; otherwise the call
\* returns the sanitized value with one entry of violations per recorded violation.
C2_RejectIffStrictRejectViolation ==
  ret.op = "sanitize" =>
    /\ ret.threw <=> (config.strictMode /\ config.rejectOnViolation /\ ret.found # <<>>)
    /\ ret.threw =>
         ret.error = W.violations_detected \o
                     join([i \in 1..Len(ret.found) |-> ret.found[i].type], <<",", " ">>)
    /\ ~ret.threw =>
         /\ ret.sanitized.t = ret.data.t
         /\ Len(ret.violations) = Len(ret.found)

\* a rejected call whose message lists two violation types
C2_Witness ==
  /\ ret.op = "sanitize"
  /\ ret.threw
  /\ ret.error = W.violations_detected \o SecurityViolationType.HTML_INJECTION
                 \o <<",", " ">> \o SecurityViolationType.XSS

\* C3 as stated: every string that contains '<script>', closed or not, is rejected
\* by rules ['script'] under strictMode and rejectOnViolation, and with
\* rejectOnViolation off is returned with a non-empty violations list.
C3_AnyScriptTagRejected ==
  (/\ ret.op = "sanitize"
   /\ ret.rules = <<N.script>>
   /\ config.strictMode
   /\ includes(ret.data.v, F_script_open))
  => IF config.rejectOnViolation
     THEN ret.threw
     ELSE ~ret.threw /\ ret.violations # <<>>

\* C3, amended: every string that contains '<script>' and a later '</script>' is
\* rejected by rules ['script'] under strictMode and rejectOnViolation, and with
\* rejectOnViolation off is returned with a non-empty violations list; a string
\* with no '</script>' in it, in any case, is returned unchanged with no violation.
C3_ClosedScriptRejected ==
  (/\ ret.op = "sanitize"
   /\ ret.rules = <<N.script>>
   /\ config.strictMode)
  => /\ HasClosedScript(ret.data.v) =>
          IF config.rejectOnViolation
          THEN ret.threw
          ELSE ~ret.threw /\ ret.violations # <<>>
     /\ ~includesCI(ret.data.v, L.script_close) =>
          /\ ~ret.threw
          /\ ret.sanitized = ret.data
          /\ ret.violations = <<>>

\* a closed script element with a "<" inside it was rejected
C3_Witness ==
  /\ ret.op = "sanitize"
  /\ ret.rules = <<N.script>>
  /\ ret.data = Str(F_script_open \o F_lt \o F_script_close)
  /\ config.rejectOnViolation
  /\ ret.threw

\* C4: when the rule list contains 'html' and only built-in rules are registered,
\* no string leaf of the sanitized result contains an HTML tag.
C4_NoTagAfterHtml ==
  (/\ ret.op = "sanitize"
   /\ ~ret.threw
   /\ N.html \in Range(ret.rules)
   /\ Range(ret.applied) \subseteq Range(DEFAULT_SANITIZATION_RULES))
  => \A i \in 1..Len(StringLeaves(ret.sanitized)) : ~HasTag(StringLeaves(ret.sanitized)[i])

\* "<<script>>" came back as ">", the tag that opens at the first "<" removed
C4_Witness ==
  /\ ret.op = "sanitize"
  /\ ~ret.threw
  /\ N.html \in Range(ret.rules)
  /\ ret.data = Str(F_lt \o F_script_open \o F_gt)
  /\ ret.sanitized = Str(F_gt)

\* C5: after sanitize with a rule list containing 'xss', no string leaf of the
\* sanitized result contains, in any case, one of the words the xss rule strips.
C5_NoXssWordAfterXss ==
  (/\ ret.op = "sanitize"
   /\ ~ret.threw
   /\ N.xss \in Range(ret.rules))
  => \A i \in 1..Len(StringLeaves(ret.sanitized)) :
       ~HasXssWord(StringLeaves(ret.sanitized)[i])

\* C8: sanitizing what sanitize returned, with the same rules, returns the same
\* value and an empty appliedRules list.
C8_Idempotent ==
  (ret.op = "sanitize" /\ ret.again /\ ~ret.threw)
  => (ret.sanitized = ret.data /\ ret.appliedRules = <<>>)

\* what a sanitize call gave its caller
Outcome(r) == <<r.threw, r.error, r.sanitized, r.violations, r.appliedRules>>

\* C9: sanitize with a list containing names that are not registered returns what
\* it returns for the list without those names; validateConfig fails exactly when
\* a name of config.rules is not registered, naming each of them, and returns true
\* otherwise.
C9_UnknownNamesDropped ==
  /\ ret.op = "sanitize" =>
       Outcome(ret) = Outcome(sanitize(config, rulesCache, compiledRulesCache, ret.data,
                                       Registered(ret.rules, rulesCache)))
  /\ ret.op = "validateConfig" =>
       /\ ret.threw <=> ~(Range(ret.rules) \subseteq DOMAIN rulesCache)
       /\ ret.threw => ret.error = W.invalid_rules \o
                         join(Registered(ret.rules, [n \in Range(ret.rules) \ DOMAIN rulesCache |-> 0]),
                              <<",", " ">>)
       /\ ~ret.threw => ret.value = TRUE


-----------------------------------------------------------------------------
(* C6, C7 *)

\* out has the shape of in: the same value for null, undefined, numbers and
\* booleans, a string for a string, an array of the same length with elements of
\* the same shape, an object of the same keys in the same order with values of
\* the same shape
RECURSIVE SameShape(_, _)
SameShape(in, out) ==
  CASE in.t = "string" -> out.t = "string"
    [] in.t = "array" ->
         /\ out.t = "array"
         /\ Len(out.v) = Len(in.v)
         /\ \A i \in 1..Len(in.v) : SameShape(in.v[i], out.v[i])
    [] in.t = "object" ->
         /\ out.t = "object"
         /\ Len(out.v) = Len(in.v)
         /\ \A i \in 1..Len(in.v) :
              out.v[i].k = in.v[i].k /\ SameShape(in.v[i].v, out.v[i].v)
    [] OTHER -> out = in

\* every string leaf of out is what the rules make of the same leaf of in
LeavesSanitized(in, out, rules) ==
  /\ Len(out) = Len(in)
  /\ \A i \in 1..Len(in) : out[i] = sanitizeString(in[i], rules, <<>>, <<>>, <<>>).sanitized

\* C6: sanitize preserves the shape of its input: null, undefined, numbers and
\* booleans are returned unchanged, with nothing added to violations or
\* appliedRules; an array yields an array of the same length whose element i is
\* the sanitization of input element i; an object yields an object of the same
\* keys in the same order; only string leaves can differ.
C6_ShapePreserved ==
  (ret.op = "sanitize" /\ ~ret.threw) =>
    /\ SameShape(ret.data, ret.sanitized)
    /\ LeavesSanitized(StringLeaves(ret.data), StringLeaves(ret.sanitized), ret.applied)
    /\ ret.data.t \in {"null", "undefined", "number", "boolean"} =>
         ret.violations = <<>> /\ ret.appliedRules = <<>>
    /\ ret.data.t = "array" =>
         \A i \in 1..Len(ret.data.v) :
           ret.sanitized.v[i] =
             sanitizeValue(ret.data.v[i], ret.applied, <<>>, <<>>, <<>>).sanitized

\* the path of a leaf, from the keys and indices on the way to it: a key is
\* joined with ".", but not at the root; index i is appended as "[i]"
Segment(kind, v) == [kind |-> kind, v |-> v]

RECURSIVE PathOf(_)
PathOf(segments) ==
  IF segments = <<>> THEN <<>>
  ELSE LET last == segments[Len(segments)]
           front == SubSeq(segments, 1, Len(segments) - 1)
       IN  IF last.kind = "index"
           THEN PathOf(front) \o <<"[">> \o numberToString(last.v) \o <<"]">>
           ELSE IF front = <<>> THEN last.v ELSE PathOf(front) \o <<".">> \o last.v

\* the paths of the string leaves of a value, depth first
RECURSIVE LeafPaths(_, _)
RECURSIVE LeafPathsFrom(_, _, _)
LeafPaths(value, segments) ==
  CASE value.t = "string" -> <<PathOf(segments)>>
    [] value.t \in {"array", "object"} -> LeafPathsFrom(value, 1, segments)
    [] OTHER -> <<>>

LeafPathsFrom(value, i, segments) ==
  IF i > Len(value.v) THEN <<>>
  ELSE (IF value.t = "array"
        THEN LeafPaths(value.v[i], Append(segments, Segment("index", i - 1)))
        ELSE LeafPaths(value.v[i].v, Append(segments, Segment("key", value.v[i].k))))
       \o LeafPathsFrom(value, i + 1, segments)

\* the violation types
ViolationTypes == {SecurityViolationType[f] : f \in DOMAIN SecurityViolationType}

\* the string leaves, by their number in depth-first order, whose path the
\* entry carries in front of ': ' and a violation type
LeavesNamedBy(entry, paths) ==
  {l \in 1..Len(paths) : \E type \in ViolationTypes : entry = paths[l] \o <<":", " ">> \o type}

\* the place of a rule name in a list of names
PlaceIn(names, name) == CHOOSE p \in 1..Len(names) : names[p] = name

\* C7: every entry of violations is '<path>: <violationType>', the path being
\* that of a string leaf: the keys from the root joined with '.' (no dot in
\* front of a root key) with '[i]' appended for array index i; the entries are
\* in depth-first order of their leaves and, within one leaf, in the order
\* of the rules in the list given. {a:{b:['<i>x</i>']}} with rules ['html'] has
\* the one violation 'a.b[0]: HTML_INJECTION'.
C7_ViolationPaths ==
  (ret.op = "sanitize" /\ ~ret.threw) =>
    LET paths == LeafPaths(ret.data, <<>>)
        leaf(i) == CHOOSE l \in LeavesNamedBy(ret.violations[i], paths) : TRUE
        place(i) == PlaceIn(ret.rules, ret.found[i].rule)
    IN  /\ \A i \in 1..Len(ret.violations) : LeavesNamedBy(ret.violations[i], paths) # {}
        /\ \A i, j \in 1..Len(ret.violations) :
             i < j => \/ leaf(i) < leaf(j)
                      \/ leaf(i) = leaf(j) /\ place(i) < place(j)
        /\ (/\ ret.data = Obj(<<Entry(K_a, Obj(<<Entry(K_b, Arr(<<Str(S_italic)>>))>>))>>)
            /\ ret.rules = <<N.html>>)
           => ret.violations = << <<"a", ".", "b", "[", "0", "]", ":", " ">> \o SecurityViolationType.HTML_INJECTION >>

\* the same with the object keys that are the empty string and the leaves
\* that two rules of the list find fault with set aside
RECURSIVE HasEmptyKey(_)
HasEmptyKey(value) ==
  CASE value.t = "array" -> \E i \in 1..Len(value.v) : HasEmptyKey(value.v[i])
    [] value.t = "object" ->
         \E i \in 1..Len(value.v) : value.v[i].k = <<>> \/ HasEmptyKey(value.v[i].v)
    [] OTHER -> FALSE

ViolationPathsElsewhere ==
  (/\ ret.op = "sanitize"
   /\ ~HasEmptyKey(ret.data)
   /\ \A i, j \in 1..Len(ret.found) :
        (i # j /\ ret.found[i].rule # ret.found[j].rule) => ret.found[i].field # ret.found[j].field)
    => C7_ViolationPaths

\* {'': {a: '<i>x</i>'}} sanitized with ['html']: the path reported is 'a'
EmptyKeyPath ==
  /\ ret.op = "sanitize"
  /\ ret.data = Obj(<<Entry(<<>>, Obj(<<Entry(K_a, Str(S_italic))>>))>>)
  /\ ret.rules = <<N.html>>
  /\ ret.violations = << <<"a", ":", " ">> \o SecurityViolationType.HTML_INJECTION >>

\* ['<b>onload</b>'] sanitized with ['xss', 'html'], which both find fault
\* with the string: the violation of html is reported before that of xss
SortedWithinLeaf ==
  /\ ret.op = "sanitize"
  /\ ret.data = Arr(<<Str(S_bold)>>)
  /\ ret.rules = <<N.xss, N.html>>
  /\ ret.violations = << <<"[", "0", "]", ":", " ">> \o SecurityViolationType.HTML_INJECTION,
                         <<"[", "0", "]", ":", " ">> \o SecurityViolationType.XSS >>

-----------------------------------------------------------------------------
(* C10 *)

\* the lowercase form of the key contains one of the sensitive words
SensitiveKey(k) ==
  \E i \in 1..Len(sensitiveFields) : includes(toLowerCase(k), sensitiveFields[i])

\* out is in with the value of every sensitive key, at any depth, replaced by
\* '[REDACTED]', every other key kept in its place, and every string kept
RECURSIVE Redacts(_, _)
Redacts(in, out) ==
  CASE in.t = "object" ->
         /\ out.t = "object"
         /\ Len(out.v) = Len(in.v)
         /\ \A i \in 1..Len(in.v) :
              /\ out.v[i].k = in.v[i].k
              /\ IF SensitiveKey(in.v[i].k)
                 THEN out.v[i].v = Str(W.REDACTED)
                 ELSE Redacts(in.v[i].v, out.v[i].v)
    [] in.t = "array" ->
         /\ out.t = "array"
         /\ Len(out.v) = Len(in.v)
         /\ \A i \in 1..Len(in.v) : Redacts(in.v[i], out.v[i])
    [] in.t = "string" /\ in.v # <<>> -> out = in
    [] OTHER -> TRUE

\* the details with the value of every sensitive key replaced by null
RECURSIVE Masked(_)
Masked(in) ==
  CASE in.t = "object" ->
         Obj([i \in 1..Len(in.v) |->
                Entry(in.v[i].k, IF SensitiveKey(in.v[i].k) THEN Null ELSE Masked(in.v[i].v))])
    [] in.t = "array" -> Arr([i \in 1..Len(in.v) |-> Masked(in.v[i])])
    [] OTHER -> in

\* {password: 'x', nested: {token: 'y', ok: 'z'}}, and what is to be made of it
DetailsExample ==
  Obj(<<Entry(K_password, Str(<<"x">>)),
        Entry(K_nested, Obj(<<Entry(K_token, Str(<<"y">>)), Entry(K_ok, Str(<<"z">>))>>))>>)

DetailsExampleRedacted ==
  Obj(<<Entry(K_password, Str(W.REDACTED)),
        Entry(K_nested, Obj(<<Entry(K_token, Str(W.REDACTED)), Entry(K_ok, Str(<<"z">>))>>))>>)

RedactedIn(error, details) ==
  IF normalization.errorFormat = "simple"
  THEN ~has(error, P.details)
  ELSE /\ has(error, P.details)
       /\ Redacts(details, get(error, P.details))
       /\ get(error, P.details) = sanitizeErrorDetails(Masked(details))
       /\ details = DetailsExample => get(error, P.details) = DetailsExampleRedacted

\* C10: in the details of every ErrorResponse of normalizeError, every object key
\* at any depth, through objects and arrays, whose lowercase form contains a
\* sensitive word maps to '[REDACTED]', so that the details do not depend on the
\* values under such keys; all other keys are kept; {password: 'x', nested:
\* {token: 'y', ok: 'z'}} gives {password: '[REDACTED]', nested: {token:
\* '[REDACTED]', ok: 'z'}}. The 'simple' error format carries no details.
C10_DetailsRedacted ==
  (ret.op = "normalizeError" /\ ~ret.threw) =>
    RedactedIn(get(ret.response, P.error), ret.details)

-----------------------------------------------------------------------------
(* C11 *)

\* out holds, at the same position, every value of in that is neither an
\* object nor an array and is an array element or the value of a key that is
\* not sensitive
RECURSIVE PassesThrough(_, _)
PassesThrough(in, out) ==
  CASE in.t = "object" ->
         /\ out.t = "object"
         /\ Len(out.v) = Len(in.v)
         /\ \A i \in 1..Len(in.v) :
              /\ out.v[i].k = in.v[i].k
              /\ SensitiveKey(in.v[i].k) \/ PassesThrough(in.v[i].v, out.v[i].v)
    [] in.t = "array" ->
         /\ out.t = "array"
         /\ Len(out.v) = Len(in.v)
         /\ \A i \in 1..Len(in.v) : PassesThrough(in.v[i], out.v[i])
    [] OTHER -> out = in

\* C11: in the details of an ErrorResponse every number, boolean, string and
\* null that is an array element or sits under a key that is not sensitive is
\* the value the details given to normalizeError hold at that position, 0,
\* false, '' and null included.
C11_ValuesPassThrough ==
  (/\ ret.op = "normalizeError"
   /\ ~ret.threw
   /\ normalization.errorFormat # "simple"
   /\ ret.details.t \in {"object", "array"}) =>
    PassesThrough(ret.details, get(get(ret.response, P.error), P.details))

-----------------------------------------------------------------------------
(* SpecCoercion: the NormalizationEngine of one configuration called once with
   an error value of any kind: an Error with or without a name, a string,
   null, undefined, a number, and objects whose message and code hold strings,
   numbers, null or nothing *)

S_E_OBJ == <<"E", "_", "O", "B", "J">>

ErrorObjects ==
  {Obj(<<>>),
   Obj(<<Entry(P.message, Str(S_boom)), Entry(P.code, Str(S_E_OBJ))>>),
   Obj(<<Entry(P.message, Str(S_boom)), Entry(P.code, Num(404))>>),
   Obj(<<Entry(P.message, Num(5)), Entry(P.code, Str(<<>>))>>),
   Obj(<<Entry(P.message, Str(<<>>)), Entry(P.code, Null)>>),
   Obj(<<Entry(P.code, Bool(TRUE))>>)}

ErrorValues ==
  {Err(Str(S_Error), Str(S_boom), Str(S_at)), Err(Str(<<>>), Str(S_boom), Str(S_at)),
   Str(S_boom), Str(<<>>), Null, Undefined, Num(5)} \cup ErrorObjects

\* the optional code: left out, empty, given, given as a name that every
\* object inherits, or given with a capital beyond ASCII
CodeParams ==
  {Undefined, Str(<<>>), Str(S_E), Str(N_constructor), Str(<<"U+00C9", "C", "H", "E", "C">>)}

InitCoercion ==
  /\ config = [rules |-> DEFAULT_RULES, customRules |-> <<>>, strictMode |-> FALSE,
               logViolations |-> TRUE, rejectOnViolation |-> FALSE]
  /\ rulesCache = initializeRules(config.customRules)
  /\ compiledRulesCache = EmptyMap
  /\ normalization \in {[DEFAULT_NORMALIZATION EXCEPT !.errorFormat = f, !.includeDebugInfo = d] :
                           f \in {"simple", "standard", "detailed"}, d \in BOOLEAN}
  /\ process \in Processes
  /\ now = 1500
  /\ ret = [op |-> "new"]
  /\ InitTransport
  /\ InitSecond
  /\ calls = 0

NextCoercion ==
  \E error \in ErrorValues : \E context \in Contexts : \E code \in CodeParams :
    \E details \in {Undefined, Str(<<"x">>), DetailsExample} : \E ticks \in Ticks :
      calls = 0 /\ NormalizeError(error, context, code, details, ticks)

SpecCoercion == InitCoercion /\ [][NextCoercion]_vars

-----------------------------------------------------------------------------
(* C12 *)

\* C12: normalizeError never throws: for an Error, a string, null, undefined,
\* a number or an object whose message and code hold values of any type, with
\* or without code and details, under each errorFormat, the call returns an
\* ErrorResponse whose success is false.
C12_NormalizeErrorTotal ==
  ret.op = "normalizeError" =>
    /\ ~ret.threw
    /\ get(ret.response, P.success) = Bool(FALSE)
    /\ has(ret.response, P.error)

-----------------------------------------------------------------------------
(* C16 *)

\* the code the claim names for an error value when no code is given
OwnCode(error) ==
  CASE error.t = "error" -> IF error.v.name # Str(<<>>) THEN error.v.name
                            ELSE Str(<<"I", "N", "T", "E", "R", "N", "A", "L", "_", "E", "R", "R", "O", "R">>)
    [] error.t = "string" -> Str(<<"V", "A", "L", "I", "D", "A", "T", "I", "O", "N", "_", "E", "R", "R", "O", "R">>)
    [] OTHER -> IF truthy(get(error, P.code)) THEN get(error, P.code)
                ELSE Str(<<"U", "N", "K", "N", "O", "W", "N", "_", "E", "R", "R", "O", "R">>)

\* the message the claim names for an error value
OwnMessage(error) ==
  CASE error.t = "error" -> error.v.message
    [] error.t = "string" -> error
    [] OTHER -> IF truthy(get(error, P.message)) THEN get(error, P.message)
                ELSE Str(<<"A", "n", " ", "u", "n", "e", "x", "p", "e", "c", "t", "e", "d", " ", "e", "r", "r", "o", "r", " ", "o", "c", "c", "u", "r", "r", "e", "d">>)

\* C16: in every ErrorResponse, error.code is the code parameter when that is a
\* non-empty string, and otherwise the name of an Error (INTERNAL_ERROR when
\* it has none), VALIDATION_ERROR for a string, and the nested code field or
\* UNKNOWN_ERROR for any other value; error.message is the message of an Error,
\* the string itself, and the nested message field or 'An unexpected error
\* occurred' for any other value; error.requestId is context.requestId.
C16_CodeAndMessage ==
  (ret.op = "normalizeError" /\ ~ret.threw) =>
    LET error == get(ret.response, P.error)
    IN  /\ get(error, P.code) = IF ret.code.t = "string" /\ ret.code.v # <<>>
                                THEN ret.code ELSE OwnCode(ret.error)
        /\ get(error, P.message) = OwnMessage(ret.error)
        /\ get(error, P.requestId) = ret.context.requestId

\* an object with a code of its own, normalized with and without a code given
C16_Witness ==
  /\ ret.op = "normalizeError"
  /\ ~ret.threw
  /\ ret.error = Obj(<<Entry(P.message, Str(S_boom)), Entry(P.code, Str(S_E_OBJ))>>)
  /\ ret.code = Str(<<>>)
  /\ get(get(ret.response, P.error), P.code) = Str(S_E_OBJ)
  /\ get(get(ret.response, P.error), P.message) = Str(S_boom)

-----------------------------------------------------------------------------
(* C17 *)

\* what the same call returns under the standard error format
UnderStandard ==
  normalizeError([normalization EXCEPT !.errorFormat = "standard"], process, ret.clock,
                 ret.error, ret.context, ret.code, ret.details).response

\* C17: under errorFormat 'simple' the error object of every ErrorResponse has
\* exactly the keys code, message, timestamp and requestId, whatever
\* includeDebugInfo is and whatever details were given, and its code and
\* message are those of the standard format for the same call.
C17_SimpleKeys ==
  (ret.op = "normalizeError" /\ normalization.errorFormat = "simple") =>
    /\ ~ret.threw
    /\ LET error == get(ret.response, P.error)
       IN  /\ [i \in 1..Len(error.v) |-> error.v[i].k]
                = <<P.code, P.message, P.timestamp, P.requestId>>
           /\ get(error, P.code) = get(get(UnderStandard, P.error), P.code)
           /\ get(error, P.message) = get(get(UnderStandard, P.error), P.message)

\* an Error with a stack, debug information enabled and details given
C17_Witness ==
  /\ ret.op = "normalizeError"
  /\ normalization.errorFormat = "simple"
  /\ normalization.includeDebugInfo
  /\ ret.error.t = "error"
  /\ ret.details = DetailsExample
  /\ ~has(get(ret.response, P.error), P.stack)
  /\ ~has(get(ret.response, P.error), P.details)

-----------------------------------------------------------------------------
(* SpecSuccess: the NormalizationEngine of one configuration called once with
   normalizeSuccess: data of several kinds, with and without a pagination whose
   page, limit and total are integers below, inside and above their ranges *)

S_id == <<"i", "d">>
S_r2 == <<"r", "2">>
S_next == <<"n", "e", "x", "t">>
S_url == <<"/", "i", "t", "e", "m", "s", "?", "p", "a", "g", "e", "=", "2">>

Pages == {-1, 0, 1, 2, 3}
Limits == {-2, 0, 1, 2, 10, 100, 500}
Totals == {-5, 0, 1, 23}

\* a PaginationMeta as a caller writes it
PaginationOf(page, limit, total, totalPages, hasNext, hasPrev, links) ==
  Obj(<<Entry(P.page, Num(page)), Entry(P.limit, Num(limit)), Entry(P.total, Num(total)),
        Entry(P.totalPages, totalPages), Entry(P.hasNext, Bool(hasNext)),
        Entry(P.hasPrev, Bool(hasPrev))>> \o links)

\* max(1, ceil(total / limit)) of integers, limit not 0
PagesOf(total, limit) ==
  LET q == IF limit > 0 THEN -((-total) \div limit) ELSE -(total \div (-limit))
  IN  IF q > 1 THEN q ELSE 1

SomeLinks == {<<>>, <<Entry(P.links, Obj(<<Entry(S_next, Str(S_url))>>))>>}

\* paginations whose derived fields follow from page, limit and total, and
\* paginations whose derived fields are arbitrary
Paginations ==
  {PaginationOf(page, limit, total, Num(PagesOf(total, limit)),
                page < PagesOf(total, limit), page > 1, links) :
     page \in Pages, limit \in Limits \ {0}, total \in Totals, links \in SomeLinks}
  \cup {PaginationOf(page, limit, total, Num(7), TRUE, TRUE, links) :
          page \in Pages, limit \in Limits, total \in Totals, links \in SomeLinks}

\* {page: 0, limit: 500, total: 23} and what is to be made of it
PaginationExample == PaginationOf(0, 500, 23, Num(1), TRUE, FALSE, <<>>)

PaginationExampleNormalized == PaginationOf(1, 100, 23, Num(1), FALSE, FALSE, <<>>)

SuccessData == {Obj(<<Entry(S_id, Num(1))>>), Arr(<<Num(1), Null>>), Str(S_boom), Null, Undefined}

\* contexts whose request started before the call, and one whose startTime
\* is 0, the first millisecond of the clock
SuccessContexts ==
  Contexts \cup {[requestId |-> Str(S_r2), startTime |-> 1200],
                 [requestId |-> Str(S_r2), startTime |-> 0]}

\* every kind of data with a few paginations, and one kind with every pagination
SuccessInputs ==
  (SuccessData \X {Undefined, PaginationExample, PaginationOf(2, 10, 23, Num(3), TRUE, TRUE, <<>>)})
  \cup ({Obj(<<Entry(S_id, Num(1))>>)} \X Paginations)

InitSuccess ==
  /\ config = [rules |-> DEFAULT_RULES, customRules |-> <<>>, strictMode |-> FALSE,
               logViolations |-> TRUE, rejectOnViolation |-> FALSE]
  /\ rulesCache = initializeRules(config.customRules)
  /\ compiledRulesCache = EmptyMap
  /\ normalization \in {[DEFAULT_NORMALIZATION EXCEPT !.format = f, !.includeMetadata = m,
                                                       !.includeLinks = l] :
                           f \in {"minimal", "standard", "detailed"}, m \in BOOLEAN,
                           l \in BOOLEAN}
  /\ process \in Processes
  /\ now = 1500
  /\ ret = [op |-> "new"]
  /\ InitTransport
  /\ InitSecond
  /\ calls = 0

NextSuccess ==
  \E in \in SuccessInputs : \E context \in SuccessContexts :
    \E ticks \in Ticks : calls = 0 /\ NormalizeSuccess(in[1], context, in[2], ticks)

SpecSuccess == InitSuccess /\ [][NextSuccess]_vars

-----------------------------------------------------------------------------
(* C13 *)

\* the pagination of the response of normalizeSuccess
PaginationOut == get(ret.response, P.pagination)

\* page, limit and total are integers in their ranges
InRange(p) ==
  /\ get(p, P.page).t = "number" /\ get(p, P.page).v >= 1
  /\ get(p, P.limit).t = "number" /\ get(p, P.limit).v >= 1 /\ get(p, P.limit).v <= 100
  /\ get(p, P.total).t = "number" /\ get(p, P.total).v >= 0

\* the derived fields of p follow from its page, limit and total
Agrees(p) ==
  /\ get(p, P.limit).v # 0
  /\ get(p, P.totalPages) = Num(PagesOf(get(p, P.total).v, get(p, P.limit).v))
  /\ get(p, P.hasNext) = Bool(get(p, P.page).v < PagesOf(get(p, P.total).v, get(p, P.limit).v))
  /\ get(p, P.hasPrev) = Bool(get(p, P.page).v > 1)

\* C13: in the pagination that normalizeSuccess attaches, totalPages is
\* max(1, ceil(total/limit)), hasNext is page < totalPages and hasPrev is
\* page > 1, for the page, limit and total of the returned object;
\* {page: 0, limit: 500, total: 23} gives {page: 1, limit: 100, total: 23,
\* totalPages: 1, hasNext: false, hasPrev: false}; a pagination that is in
\* range and satisfies the equalities is returned unchanged.
C13_DerivedFieldsAgree ==
  (/\ ret.op = "normalizeSuccess"
   /\ ret.pagination # Undefined
   /\ normalization.format # "minimal") =>
    /\ Agrees(PaginationOut)
    /\ ret.pagination = PaginationExample => PaginationOut = PaginationExampleNormalized
    /\ (InRange(ret.pagination) /\ Agrees(ret.pagination) /\ ~has(ret.pagination, P.links))
         => PaginationOut = ret.pagination

-----------------------------------------------------------------------------
(* C14 *)

\* C14: for integers page, limit and total the returned pagination has
\* page >= 1, 1 <= limit <= 100 and total >= 0: a value below its range is
\* raised to the lower bound, a limit above 100 is lowered to 100, and a value
\* inside its range is kept.
C14_PaginationRanges ==
  (/\ ret.op = "normalizeSuccess"
   /\ ret.pagination # Undefined
   /\ normalization.format # "minimal") =>
    LET page == get(ret.pagination, P.page).v
        limit == get(ret.pagination, P.limit).v
        total == get(ret.pagination, P.total).v
    IN  /\ InRange(PaginationOut)
        /\ get(PaginationOut, P.page) = Num(IF page < 1 THEN 1 ELSE page)
        /\ get(PaginationOut, P.limit) = Num(IF limit < 1 THEN 1 ELSE IF limit > 100 THEN 100
                                             ELSE limit)
        /\ get(PaginationOut, P.total) = Num(IF total < 0 THEN 0 ELSE total)

\* a page and a total below their ranges and a limit above its range
C14_Witness ==
  /\ ret.op = "normalizeSuccess"
  /\ normalization.format = "standard"
  /\ ret.pagination # Undefined
  /\ get(ret.pagination, P.page) = Num(-1)
  /\ get(ret.pagination, P.limit) = Num(500)
  /\ get(ret.pagination, P.total) = Num(-5)
  /\ get(PaginationOut, P.page) = Num(1)
  /\ get(PaginationOut, P.limit) = Num(100)
  /\ get(PaginationOut, P.total) = Num(0)

-----------------------------------------------------------------------------
(* C15 *)

\* the property names of an object, in order
KeysOf(obj) == [i \in 1..Len(obj.v) |-> obj.v[i].k]

NonEmptyString(x) == x.t = "string" /\ x.v # <<>>

\* C15: normalizeSuccess shapes its result by config.format, for every data,
\* context and pagination. 'minimal' gives exactly success and data.
\* 'standard' gives success, data, metadata with timestamp, requestId,
\* version, and processingTime when includeMetadata is set, and pagination
\* exactly when one was given, without server or nodeVersion. 'detailed'
\* gives the standard shape with non-empty strings server and nodeVersion
\* added to metadata. In every format success is true and data is the data
\* given, and metadata.requestId is context.requestId.
C15_ShapeByFormat ==
  ret.op = "normalizeSuccess" =>
    LET r == ret.response
        metadata == get(r, P.metadata)
    IN  /\ get(r, P.success) = Bool(TRUE)
        /\ get(r, P.data) = ret.data
        /\ IF normalization.format = "minimal"
           THEN KeysOf(r) = <<P.success, P.data>>
           ELSE /\ KeysOf(r) = <<P.success, P.data, P.metadata>>
                                 \o IF ret.pagination # Undefined THEN <<P.pagination>>
                                    ELSE <<>>
                /\ get(metadata, P.requestId) = ret.context.requestId
                /\ KeysOf(metadata) =
                     <<P.timestamp, P.requestId, P.version>>
                     \o (IF normalization.includeMetadata THEN <<P.processingTime>> ELSE <<>>)
                     \o (IF normalization.format = "detailed" THEN <<P.server, P.nodeVersion>>
                         ELSE <<>>)
                /\ normalization.format = "detailed" =>
                     /\ NonEmptyString(get(metadata, P.server))
                     /\ NonEmptyString(get(metadata, P.nodeVersion))

\* the same for the contexts whose startTime is not 0
ShapeByFormatAfterZero ==
  (ret.op = "normalizeSuccess" /\ ret.context.startTime # 0) => C15_ShapeByFormat

\* metadata is enabled, the startTime of the context is 0 and the metadata of
\* the response has no processingTime
NoProcessingTime ==
  /\ ret.op = "normalizeSuccess"
  /\ normalization.format = "standard"
  /\ normalization.includeMetadata
  /\ ret.context.startTime = 0
  /\ KeysOf(get(ret.response, P.metadata)) = <<P.timestamp, P.requestId, P.version>>

\* a detailed response with a pagination, NODE_ENV not being set
DetailedWithPagination ==
  /\ ret.op = "normalizeSuccess"
  /\ normalization.format = "detailed"
  /\ normalization.includeMetadata
  /\ process.NODE_ENV = Undefined
  /\ ret.pagination # Undefined
  /\ has(ret.response, P.pagination)
  /\ get(get(ret.response, P.metadata), P.server) = Str(W.development)
  /\ has(get(ret.response, P.metadata), P.processingTime)

-----------------------------------------------------------------------------
(* SpecAdapters: one request through the adapters *)

S_e1 == <<"e", "1">>
S_r3 == <<"r", "3">>
S_u1 == <<"u", "1">>
S_u2 == <<"u", "2">>
S_q == <<"q">>
S_Cookie == <<"C", "o", "o", "k", "i", "e">>

\* payloads that have the shape of an envelope
EnvelopeSuccess ==
  Obj(<<Entry(P.success, Bool(TRUE)),
        Entry(P.data, Obj(<<Entry(S_id, Num(1))>>)),
        Entry(P.metadata, Obj(<<Entry(P.timestamp, Str(toISOString(1000))),
                                Entry(P.requestId, Str(S_e1)),
                                Entry(P.version, Str(W.v1))>>))>>)

EnvelopeError ==
  Obj(<<Entry(P.success, Bool(FALSE)),
        Entry(P.error, Obj(<<Entry(P.code, Str(S_E)), Entry(P.message, Str(S_boom))>>)),
        Entry(P.metadata, Obj(<<Entry(P.requestId, Str(S_e1))>>))>>)

Envelopes == {EnvelopeSuccess, EnvelopeError}

\* payloads that have not: a plain object, an envelope of the minimal format,
\* a metadata that is a string or a function, a page of items, data beside its
\* pagination
Plain == Obj(<<Entry(S_id, Num(1))>>)

Payloads ==
  {Plain,
   Obj(<<Entry(P.success, Bool(TRUE)), Entry(P.data, Plain)>>),
   Obj(<<Entry(P.success, Bool(TRUE)), Entry(P.metadata, Str(<<"x">>))>>),
   Obj(<<Entry(P.success, Bool(TRUE)), Entry(P.metadata, [t |-> "function", v |-> P.requestId])>>),
   Obj(<<Entry(P.items, Arr(<<Num(1)>>)), Entry(P.page, Num(0)), Entry(P.limit, Num(500)),
         Entry(P.total, Num(23))>>),
   Obj(<<Entry(P.data, Arr(<<Num(1)>>)), Entry(P.pagination, PaginationExample)>>),
   Arr(<<Num(1), Undefined>>),
   Str(S_boom), Null, Undefined}

\* what a handler gives to res.json and to res.send
JsonPayloads == Envelopes \cup Payloads

SendPayloads ==
  JsonPayloads \cup {JsonText(EnvelopeSuccess), JsonText(EnvelopeError), JsonText(Plain)}

\* what the stream of a Nest handler fails with
NestErrors ==
  Envelopes \cup
  {Err(Str(S_Error), Str(S_boom), Str(S_at)),
   Str(S_boom), Null,
   Obj(<<Entry(P.message, Str(S_boom)), Entry(P.code, Str(S_E_OBJ)),
         Entry(P.details, Str(<<"x">>))>>),
   Obj(<<Entry(P.message, Str(S_boom)), Entry(P.code, Num(404))>>),
   Obj(<<Entry(P.response, Obj(<<Entry(P.error, Obj(<<Entry(P.code, Str(S_E))>>)),
                                 Entry(P.message, Str(S_boom))>>))>>),
   Obj(<<Entry(P.success, Bool(TRUE)), Entry(P.metadata, Str(<<"x">>))>>)}

Outcomes ==
  {[kind |-> "next", value |-> v] : v \in JsonPayloads}
  \cup {[kind |-> "error", value |-> e] : e \in NestErrors}

\* what the runtime writes in the stack of an error after its name and its
\* message: nothing when Error.stackTraceLimit is 0, else the frame of
\* isAlreadyNormalized and those of its callers
StackFrames == {<<>>, H.at_isAlreadyNormalized}

\* the headers of a request: none, or one of those an id is read from
HeaderSets ==
  {Obj(<<>>),
   Obj(<<Entry(H.x_request_id, Str(S_r1))>>),
   Obj(<<Entry(H.x_correlation_id, Str(S_r2))>>),
   Obj(<<Entry(H.x_trace_id, Str(S_r3))>>)}

\* an extractRequestId callback that returns req.headers['x-request-id']
ReadsRequestIdHeader == [t |-> "function", v |-> H.x_request_id]

\* the NormalizationConfigs: disabled, one for each format, and one that
\* includes the debug information
AdapterNormalizations ==
  {[DEFAULT_NORMALIZATION EXCEPT !.enabled = FALSE],
   [DEFAULT_NORMALIZATION EXCEPT !.format = "minimal", !.errorFormat = "simple"],
   DEFAULT_NORMALIZATION,
   [DEFAULT_NORMALIZATION EXCEPT !.format = "detailed", !.errorFormat = "detailed"],
   [DEFAULT_NORMALIZATION EXCEPT !.includeDebugInfo = TRUE]}

\* the SanitizationConfigs, enabled or not
AdapterConfigs ==
  [rules : {DEFAULT_RULES},
   customRules : {<<>>},
   enabled : BOOLEAN,
   strictMode : BOOLEAN,
   logViolations : {TRUE},
   rejectOnViolation : BOOLEAN]

\* requests with something to sanitize
Requests ==
  {[NoRequest EXCEPT !.body = Str(S_bold)],
   [NoRequest EXCEPT !.body = Obj(<<Entry(S_q, Str(S_john))>>),
                     !.query = Obj(<<Entry(S_q, Str(S_bold))>>)],
   [NoRequest EXCEPT !.params = Obj(<<Entry(S_id, Str(S_italic))>>),
                     !.headers = Obj(<<Entry(H.x_request_id, Str(S_bold)),
                                       Entry(S_Cookie, Str(S_bold))>>)],
   [NoRequest EXCEPT !.body = Str(S_test), !.query = Obj(<<>>),
                     !.headers = Obj(<<Entry(H.x_request_id, Str(S_r1))>>)]}

\* a request that reaches the adapters of the NormalizationEngine, under each
\* configuration of it
InitNormalized ==
  /\ config = [rules |-> DEFAULT_RULES, customRules |-> <<>>, enabled |-> TRUE,
               strictMode |-> FALSE, logViolations |-> TRUE, rejectOnViolation |-> FALSE]
  /\ normalization \in AdapterNormalizations
  /\ req \in {[NoRequest EXCEPT !.headers = h] : h \in HeaderSets}
  /\ res \in {[NewResponse EXCEPT !.statusCode = s] : s \in {200, 404}}
  /\ options \in {[NoOptions EXCEPT !.autoDetectPagination = a, !.extractRequestId = f] :
                    a \in BOOLEAN, f \in {Undefined, ReadsRequestIdHeader}}

\* a request that reaches the adapters of the SanitizationEngine, under each
\* configuration of it
InitSanitized ==
  /\ config \in AdapterConfigs
  /\ normalization = DEFAULT_NORMALIZATION
  /\ req \in Requests
  /\ res = NewResponse
  /\ options \in {[NoOptions EXCEPT !.rules = r, !.sanitizeHeaders = h] :
                    r \in {Undefined, Null, Arr(<<N.trim, N.html>>)}, h \in BOOLEAN}

\* what an error handler is given: an Error, an error with a status and a
\* code of its own, a string, nothing
HandledErrors ==
  {Err(Str(S_Error), Str(S_boom), Str(S_at)),
   Obj(<<Entry(P.message, Str(S_boom)), Entry(P.code, Str(S_E_OBJ)),
         Entry(H.status, Num(404))>>),
   Str(S_boom),
   Undefined}

\* a request whose response was sent before it reaches the adapters
InitSent ==
  /\ config = [rules |-> DEFAULT_RULES, customRules |-> <<>>, enabled |-> TRUE,
               strictMode |-> FALSE, logViolations |-> TRUE, rejectOnViolation |-> FALSE]
  /\ normalization = DEFAULT_NORMALIZATION
  /\ req = NoRequest
  /\ res = [NewResponse EXCEPT !.headersSent = TRUE]
  /\ options = NoOptions

InitAdapters ==
  /\ InitNormalized \/ InitSanitized \/ InitSent
  /\ bound = Undefined
  /\ InitSecond
  /\ rulesCache = initializeRules(config.customRules)
  /\ compiledRulesCache = EmptyMap
  /\ process = [NODE_ENV |-> Undefined, version |-> Str(W.node_version)]
  /\ now = 1500
  /\ ret = [op |-> "new"]
  /\ calls = 0

\* under the adapters the clock advances after the first reading of a call, or
\* not at all
AdapterTicks == {<<0, 0>>, <<1, 0>>}

\* what updateConfig is given while a request is on its way
EnabledConfigs == {[enabled |-> b] : b \in BOOLEAN}

\* what updateConfig of the sanitization middleware is given: enabled, or
\* other rules
SanitizationChanges == EnabledConfigs \cup {[rules |-> <<N.trim>>]}

NextAdapters ==
  \/ \E elapsed \in 0..1 : NormalizationMiddleware(elapsed)
  \/ \E newConfig \in EnabledConfigs : NormalizationUpdateConfig(newConfig)
  \/ \E data \in JsonPayloads : \E ticks \in AdapterTicks : ResJson(data, Str(S_u1), ticks)
  \/ \E data \in SendPayloads : \E ticks \in AdapterTicks : ResSend(data, Str(S_u1), ticks)
  \/ Intercept(Str(S_u1))
  \/ \E outcome \in Outcomes : \E frames \in StackFrames :
     \E elapsed \in 0..1 : \E ticks \in AdapterTicks :
       Emit(outcome, frames, elapsed, ticks)
  \/ \E newConfig \in SanitizationChanges : SanitizationUpdateConfig(newConfig)
  \/ \E value \in {Null, Undefined, Str(S_bold), Str(S_test)} : PipeTransform(value)
  \/ \E nextThrows \in BOOLEAN : \E ticks \in AdapterTicks :
       SanitizationMiddleware(Str(S_u1), nextThrows, <<0>> \o ticks)
  \/ \E error \in HandledErrors : \E ticks \in AdapterTicks :
       ErrorHandler(error, Str(S_u1), <<1>> \o ticks)

SpecAdapters == InitAdapters /\ [][NextAdapters]_vars

-----------------------------------------------------------------------------
(* C20: a disabled adapter passes its payload through *)

\* the last body given to an original method of the response
LastSent == res.sent[Len(res.sent)]

\* the response has been given body through the original method via, and
\* nothing else has changed in it
ReachesOriginal(via, body) ==
  res' = [res EXCEPT !.sent = Append(@, [via |-> via, body |-> body]), !.headersSent = TRUE]

DisabledLetsThrough ==
  /\ ret.op = "sanitizationMiddleware"
  /\ ~config.enabled
  /\ config.strictMode
  /\ config.rejectOnViolation
  /\ req.body = Str(S_bold)
  /\ res.next = 1
  /\ res.sent = <<>>

\* wrappers installed while enabled was true normalize an answer given after
\* updateConfig has set enabled to false
WrappedStays ==
  /\ ret.op = "res.json"
  /\ ret.entered
  /\ ~normalization.enabled
  /\ ret.data = Plain
  /\ res.statusCode = 200
  /\ LastSent.body # Plain

-----------------------------------------------------------------------------
(* C18: a payload that has the shape of an envelope is forwarded as it is *)

\* the detection predicate: success, metadata and metadata.requestId are there
HasEnvelopeShape(data) ==
  /\ has(data, P.success)
  /\ has(data, P.metadata)
  /\ has(get(data, P.metadata), P.requestId)

\* the value a payload denotes: that of its text when it is a JSON text
Denoted(data) == IF data.t = "json" THEN data.v ELSE data

\* C18: a payload that has success, metadata and metadata.requestId reaches
\* the original res.json as it is and the original res.send as the text of
\* the same value, whatever the status code of the response, and the
\* interceptor gives it as the handler gave it, emitted or failed with
C18_EnvelopeForwarded ==
  /\ (ret.op = "res.json" /\ HasEnvelopeShape(ret.data)) =>
        LastSent = [via |-> "json", body |-> ret.data]
  /\ (ret.op = "res.send" /\ HasEnvelopeShape(Denoted(ret.data))) =>
        /\ LastSent.via = "send"
        /\ Denoted(LastSent.body) = Denoted(ret.data)
  /\ (ret.op = "emit" /\ HasEnvelopeShape(ret.outcome.value)) => ret.out = ret.outcome

-----------------------------------------------------------------------------
(* C19: every envelope the boundary makes carries a request id *)

\* the id an adapter extracts from the request, undefined when there is none
ExtractedByExpress ==
  IF truthy(options.extractRequestId) THEN get(req.headers, options.extractRequestId.v)
  ELSE or(get(req.headers, H.x_request_id), get(req.headers, H.x_correlation_id))

ExtractedByNest ==
  or(get(req.headers, H.x_request_id),
     or(get(req.headers, H.x_correlation_id), get(req.headers, H.x_trace_id)))

\* out is an envelope made from the payload given, not the payload forwarded
MadeFrom(out, given) == has(out, P.success) /\ out # given

\* the envelope carries the id extracted, or the fresh one when none was
CarriesId(envelope, extracted, uuid) ==
  /\ NonEmptyString(get(get(envelope, P.metadata), P.requestId))
  /\ get(get(envelope, P.metadata), P.requestId) = or(extracted, uuid)

\* C19: an envelope made by the wrappers of the Express middleware or by the
\* interceptor has a metadata.requestId that is a non-empty string: the id
\* extracted from the request when there is one, a fresh one otherwise
C19_RequestIdDefined ==
  /\ (/\ ret.op \in {"res.json", "res.send"}
      /\ res.json = "wrapped"
      /\ res.errors = 0
      /\ MadeFrom(Denoted(LastSent.body), Denoted(ret.data))) =>
        CarriesId(Denoted(LastSent.body), ExtractedByExpress, ret.uuid)
  /\ (/\ ret.op = "emit"
      /\ ret.stream = "piped"
      /\ ret.out.kind \in {"next", "error"}
      /\ MadeFrom(ret.out.value, ret.outcome.value)) =>
        CarriesId(ret.out.value, ExtractedByNest, ret.uuid)

-----------------------------------------------------------------------------
(* C21: the sanitization middleware under strictMode and rejectOnViolation *)

\* the rules that the list of the middleware names, the list it bound when it
\* was made: those of options.rules when it is an array, those config.rules
\* had then when it is undefined, none when it is null
NamedRules ==
  LET names == CASE bound # Undefined -> bound.v
                 [] options.rules = Undefined -> config.rules
                 [] options.rules.t = "array" -> options.rules.v
                 [] OTHER -> <<>>
  IN  {rulesCache[n] : n \in Range(names) \cap DOMAIN rulesCache}

\* a string of this part of the request fails the validation of a rule
HoldsViolation(part) ==
  \E s \in Range(StringLeaves(part)) : \E rule \in NamedRules : violatesRule(rule, s)

\* no string of this part fails the validation of a rule or is changed by one
Clean(part) ==
  \A s \in Range(StringLeaves(part)) : \A rule \in NamedRules :
    /\ ~violatesRule(rule, s)
    /\ purifyRule(rule, transformRule(rule, s)) = s

\* the body of the response that tells of an internal sanitization error
TellsSanitizationError(body) ==
  /\ get(body, P.success) = Bool(FALSE)
  /\ get(get(body, P.error), P.code) = Str(M.SANITIZATION_ERROR)
  /\ get(get(body, P.error), P.message) = Str(M.internal_error)

\* what a step of the middleware does to the response: it answers a request
\* that holds a violation in its body, query or params, and lets a request
\* without a violation pass
StrictRejects ==
  /\ (HoldsViolation(req.body) \/ HoldsViolation(req.query) \/ HoldsViolation(req.params)) =>
       /\ res'.statusCode = 500
       /\ Len(res'.sent) = Len(res.sent) + 1
       /\ res'.sent[Len(res'.sent)].via = "json"
       /\ TellsSanitizationError(ret'.body)
       /\ res'.next = res.next
  /\ (Clean(req.body) /\ Clean(req.query) /\ Clean(req.params) /\ Clean(req.headers)) =>
       /\ res'.sent = res.sent
       /\ res'.next = res.next + 1
       /\ res'.statusCode = res.statusCode

\* C21: with strictMode and rejectOnViolation enabled, the middleware answers
\* a request whose body, query or params hold a violation with the status 500
\* and the body {success: false, error: {code: 'SANITIZATION_ERROR', message:
\* 'Internal sanitization error', ...}} and does not call next; a request
\* without a violation gets no response and next is called. The body is the
\* one the middleware gives to res.json; a request without a violation is one
\* with none in its body, query, params and headers
C21_StrictRejects ==
  [][(/\ ret'.op = "sanitizationMiddleware"
      /\ config.enabled /\ config.strictMode /\ config.rejectOnViolation) => StrictRejects
    ]_vars

\* the same when the downstream that next() starts returns and the rules of
\* the options are not null
StrictRejectsDownstreamReturns ==
  [][(/\ ret'.op = "sanitizationMiddleware"
      /\ config.enabled /\ config.strictMode /\ config.rejectOnViolation
      /\ ~ret'.nextThrows
      /\ options.rules # Null) => StrictRejects
    ]_vars

\* a strict, rejecting middleware has answered a body with markup by 500
StrictAnswers500 ==
  /\ ret.op = "sanitizationMiddleware"
  /\ config.enabled /\ config.strictMode /\ config.rejectOnViolation
  /\ ret.status = 500
  /\ res.statusCode = 500
  /\ res.next = 0
  /\ Len(res.sent) = 1
  /\ TellsSanitizationError(res.sent[1].body)

\* a strict, rejecting middleware has answered a request without a violation
\* by 500: the downstream that next() started has thrown
CleanAnswered500 ==
  /\ ret.op = "sanitizationMiddleware"
  /\ config.enabled /\ config.strictMode /\ config.rejectOnViolation
  /\ ret.nextThrows
  /\ options.rules # Null
  /\ req.body = Str(S_test)
  /\ res.statusCode = 500
  /\ Len(res.sent) = 1
  /\ TellsSanitizationError(res.sent[1].body)

-----------------------------------------------------------------------------
(* SpecInstances: calls on one pair of engines, then on a second pair *)

NewConfigs ==
  {[format |-> "minimal"], [includeMetadata |-> FALSE],
   [format |-> "detailed", errorFormat |-> "detailed"]}

InitInstances ==
  /\ config = [rules |-> DEFAULT_RULES, customRules |-> <<>>, strictMode |-> FALSE,
               logViolations |-> TRUE, rejectOnViolation |-> FALSE]
  /\ rulesCache = initializeRules(config.customRules)
  /\ compiledRulesCache = EmptyMap
  /\ normalization = DEFAULT_NORMALIZATION
  /\ process \in Processes
  /\ now = 1500
  /\ ret = [op |-> "new"]
  /\ InitTransport
  /\ second \in {SecondEngines(same) : same \in BOOLEAN}
  /\ calls = 0

NextInstances ==
  \/ \E data \in {Str(S_john), Str(S_bold)} : \E rules \in {<<N.xss, N.html>>, <<N.trim>>} :
       Sanitize(data, rules)
  \/ \E data \in {Str(S_bold)} : SanitizeDefault(data)
  \/ AddCustomRule(TestRule)
  \/ \E ruleName \in {N.html, N.trim} : RemoveRule(ruleName)
  \/ \E newConfig \in NewConfigs : UpdateConfig(newConfig)
  \/ \E data \in {Str(S_bold), Str(S_test)} : SecondSanitize(data)
  \/ \E context \in Contexts : \E ticks \in Ticks :
       SecondNormalizeSuccess(Plain, context, ticks)

SpecInstances == InitInstances /\ [][NextInstances]_vars

\* C22: a call on the second engines returns what it returns when no call
\* was ever made on the first: normalizeSuccess the envelope of the
\* configuration the second engine was built from, sanitize the result of the
\* rules, the registry and the configuration the second engine was built with
C22_InstancesIndependent ==
  /\ ret.op = "second.normalizeSuccess" =>
       ret.response = normalizeSuccess(DEFAULT_NORMALIZATION, process, ret.clock, ret.data,
                                       ret.context, Undefined)
  /\ ret.op = "second.sanitize" =>
       LET alone == sanitize([rules |-> DEFAULT_RULES, customRules |-> <<>>,
                              strictMode |-> FALSE, logViolations |-> TRUE,
                              rejectOnViolation |-> FALSE],
                             initializeRules(<<>>), EmptyMap, ret.data, DEFAULT_RULES)
       IN  /\ ret.threw = alone.threw
           /\ ret.sanitized = alone.sanitized
           /\ ret.violations = alone.violations
           /\ ret.appliedRules = alone.appliedRules

-----------------------------------------------------------------------------
(* C23 *)

\* C23: after any sequence of sanitize, addCustomRule and removeRule calls, a
\* sanitize call applies exactly the rules now registered under the names of
\* its list, in sorted order, and the cache entry of the list holds those
\* rules; addCustomRule and removeRule leave the cache empty.
C23_CacheHoldsRegistered ==
  /\ ret.op = "sanitize" =>
       /\ ret.applied = resolveRules(sortedRules(ret.rules), rulesCache)
       /\ compiledRulesCache[cacheKey(ret.rules)] =
            resolveRules(sortedRules(ret.rules), rulesCache)
  /\ ret.op \in {"addCustomRule", "removeRule"} => compiledRulesCache = EmptyMap

-----------------------------------------------------------------------------
(* C24 *)

\* C24: a sanitize call emits its violations to console.warn, once, exactly
\* when logViolations is enabled and the call recorded at least one violation,
\* whatever strictMode and rejectOnViolation are.
C24_LoggedOnce ==
  ret.op = "sanitize" =>
    (ret.warned <=> (config.logViolations /\ Len(ret.found) > 0))

-----------------------------------------------------------------------------
(* SpecRules: an engine with custom rules, registered by config.customRules or
   by addCustomRule, sanitizes one string under one rule or several *)

S_script == <<"<", "s", "c", "r", "i", "p", "t", ">", "<", "/", "s", "c", "r", "i", "p", "t", ">">>
S_attack == <<".", ".", "/", ";", "d", "r", "o", "p">>

\* custom rules made of the functions of the built-in rules: under a name of
\* their own or the name of a built-in rule, with or without validate and
\* transform
CustomRules ==
  { TestRule,
    Rule(N_test_rule, "none", "email-normalize"),
    Rule(N_test_rule, "none", "none"),
    Rule(N.html, "none", "none"),
    Rule(N.sql, "trim", "html"),
    Rule(N.trim, "none", "html"),
    Rule(N_constructor, "none", "html") }

RuleData == {Str(S_bold), Str(S_john), Str(S_test), Str(S_script), Str(S_attack)}

\* the detection-only rules
DetectionOnly == <<N.sql, N.url_validate, N.path_traversal>>

RuleLists ==
  { <<DEFAULT_SANITIZATION_RULES[i].name>> : i \in 1..Len(DEFAULT_SANITIZATION_RULES) }
  \cup { <<N_test_rule>>, <<N_constructor>>, DetectionOnly, <<N.sql, N_test_rule>>,
         <<N.html, N.sql, N.trim, N_test_rule>> }

InitRules ==
  /\ config \in [rules : {DEFAULT_RULES},
                 customRules : {<<>>} \cup {<<rule>> : rule \in CustomRules},
                 strictMode : {FALSE},
                 logViolations : {FALSE},
                 rejectOnViolation : {FALSE}]
  /\ rulesCache = initializeRules(config.customRules)
  /\ compiledRulesCache = EmptyMap
  /\ InitHost
  /\ ret = [op |-> "new"]
  /\ InitTransport
  /\ InitSecond
  /\ calls = 0

NextRules ==
  \/ \E rule \in CustomRules : calls = 0 /\ AddCustomRule(rule)
  \/ \E data \in RuleData : \E rules \in RuleLists :
       ret.op # "sanitize" /\ Sanitize(data, rules)

SpecRules == InitRules /\ [][NextRules]_vars

-----------------------------------------------------------------------------
(* C25 *)

\* the rule-name to violation-type table, with the severity of each type
MappedRules ==
  { <<N.html, SecurityViolationType.HTML_INJECTION, "medium">>,
    <<N.script, SecurityViolationType.SCRIPT_INJECTION, "critical">>,
    <<N.xss, SecurityViolationType.XSS, "high">>,
    <<N.sql, SecurityViolationType.SQL_INJECTION, "critical">>,
    <<N.path_traversal, SecurityViolationType.PATH_TRAVERSAL, "high">>,
    <<N.command_injection, SecurityViolationType.COMMAND_INJECTION, "critical">> }

\* the names every object inherits from Object.prototype
Inherited(name) == inherited(name) # <<>>

\* every violation of the last sanitize call, but those of the rules named
\* as apart says, has the type and severity of the table when the name of its
\* rule is in the table, and type XSS with the given severity when it is not
FollowsTables(unmappedSeverity, apart(_)) ==
  ret.op = "sanitize" =>
    \A i \in 1..Len(ret.found) :
      LET v == ret.found[i]
      IN  CASE apart(v.rule) -> TRUE
            [] \E row \in MappedRules : row[1] = v.rule ->
                 <<v.rule, v.type, v.severity>> \in MappedRules
            [] OTHER ->
                 v.type = SecurityViolationType.XSS /\ v.severity = unmappedSeverity

\* C25: a violation recorded by a rule whose name is not in the rule-name to
\* violation-type table has type XSS and severity medium; for the mapped
\* names, type and severity are those of the tables and depend on the rule
\* name only.
C25_UnmappedMedium == FollowsTables("medium", LAMBDA name : FALSE)

\* what the code does: the severity of an unmapped name is that of XSS in the
\* severity table, high; the names every object inherits are set aside
UnmappedHigh == FollowsTables("high", Inherited)

\* a call in which a custom rule under a name of its own recorded a violation
\* of type XSS and severity high
UnmappedRecordedHigh ==
  /\ ret.op = "sanitize"
  /\ \E i \in 1..Len(ret.found) :
       /\ ret.found[i].rule = N_test_rule
       /\ ret.found[i].type = SecurityViolationType.XSS
       /\ ret.found[i].severity = "high"

-----------------------------------------------------------------------------
(* C26 *)

\* C26: in a sanitize call no violation names an applied rule that has no
\* validate function; no applied rule without a transform function is named in
\* appliedRules; and when none of the applied rules has a transform function,
\* as with the detection-only rules, the value returned is the input.
C26_AbsentFunctions ==
  ret.op = "sanitize" =>
    /\ \A i \in 1..Len(ret.applied) :
         ret.applied[i].validate = "none" =>
           \A j \in 1..Len(ret.found) : ret.found[j].rule # ret.applied[i].name
    /\ \A i \in 1..Len(ret.applied) :
         ret.applied[i].transform = "none" =>
           \A j \in 1..Len(ret.appliedRules) : ret.appliedRules[j] # ret.applied[i].name
    /\ (\A i \in 1..Len(ret.applied) : ret.applied[i].transform = "none") =>
         ret.sanitized = ret.data

-----------------------------------------------------------------------------
(* C27 *)

\* C27: sanitize does not modify its inputs: after the call the caller's
\* rule-name array, and config.rules when the call used the default, hold the
\* names they held before the call, in the same order.
C27_InputsUnmodified ==
  ret.op = "sanitize" =>
    /\ ret.rulesAfter = ret.rules
    /\ ret.usedDefault => config.rules = ret.rules

-----------------------------------------------------------------------------
(* SpecTwice: a handler answers with res.json, and the envelope the wrapper
   makes passes through the wrapped res.send of the same response *)

InitTwice ==
  /\ InitNormalized
  /\ bound = Undefined
  /\ InitSecond
  /\ rulesCache = initializeRules(config.customRules)
  /\ compiledRulesCache = EmptyMap
  /\ process = [NODE_ENV |-> Undefined, version |-> Str(W.node_version)]
  /\ now = 1500
  /\ ret = [op |-> "new"]
  /\ calls = 0

NextTwice ==
  \/ \E elapsed \in 0..1 : NormalizationMiddleware(elapsed)
  \/ \E data \in JsonPayloads : \E asText \in BOOLEAN :
       \E ticks \in Ticks : ResJsonThenSend(data, Str(S_u1), Str(S_u2), asText, ticks)

SpecTwice == InitTwice /\ [][NextTwice]_vars

\* the wrapped res.json made the envelope with normalizeSuccess: the status is
\* below 400 and the payload was not taken for an envelope
MadeBySuccess ==
  /\ ret.op = "res.json.send"
  /\ res.statusCode < 400
  /\ ~isAlreadyNormalized(ret.data).threw
  /\ ~isAlreadyNormalized(ret.data).response.v

\* C28: under each format the envelope normalizeSuccess returns satisfies
\* isAlreadyNormalized, and the wrapped res.send it is handed to forwards it as
\* it is: what reaches the original res.send is the text of that envelope.
C28_NormalizingTwice ==
  MadeBySuccess =>
    /\ isAlreadyNormalized(ret.envelope) = Returned(Bool(TRUE))
    /\ LastSent.via = "send"
    /\ Denoted(LastSent.body) = toJSON(ret.envelope)

-----------------------------------------------------------------------------
(* SpecMiddleware: the Express sanitization middleware on one request, with
   an onViolation callback or without, before a downstream that returns or
   throws *)

\* onViolation callbacks: one that returns, one that throws
Callbacks == {[t |-> "function", v |-> "returns"], [t |-> "function", v |-> "throws"]}

InitMiddleware ==
  /\ config \in AdapterConfigs
  /\ normalization = DEFAULT_NORMALIZATION
  /\ req \in Requests
  /\ res = NewResponse
  /\ options \in {[NoOptions EXCEPT !.rules = r, !.sanitizeHeaders = h, !.onViolation = f] :
                    r \in {Undefined, Arr(<<N.trim, N.html>>)}, h \in BOOLEAN,
                    f \in {Undefined} \cup Callbacks}
  /\ bound = Undefined
  /\ InitSecond
  /\ rulesCache = initializeRules(config.customRules)
  /\ compiledRulesCache = EmptyMap
  /\ process = [NODE_ENV |-> Undefined, version |-> Str(W.node_version)]
  /\ now = 1500
  /\ ret = [op |-> "new"]
  /\ calls = 0

NextMiddleware ==
  \E nextThrows \in BOOLEAN : \E ticks \in Ticks :
    SanitizationMiddleware(Str(S_u1), nextThrows, <<0>> \o ticks)

SpecMiddleware == InitMiddleware /\ [][NextMiddleware]_vars

\* C29: the sanitization middleware either calls next once and sends nothing,
\* or sends one response, with the status 400 or 500, and does not call next;
\* also when sanitize, the onViolation callback or next() throws.
C29_NextOrResponse ==
  ret.op = "sanitizationMiddleware" =>
    \/ res.next = 1 /\ res.sent = <<>>
    \/ res.next = 0 /\ Len(res.sent) = 1 /\ res.statusCode \in {400, 500}

-----------------------------------------------------------------------------
(* SpecKeys: an engine whose rule names may hold a comma, called with lists
   that are joined to the same text *)

\* a custom rule whose name holds a comma
CommaRule == Rule(N_html_trim, "test-rule", "none")

KeyRuleLists == { <<N.html, N.trim>>, <<N.trim, N.html>>, <<N_html_trim>>, <<N.html>> }

InitKeys ==
  /\ config \in [rules : {DEFAULT_RULES},
                 customRules : {<<>>, <<CommaRule>>},
                 strictMode : {FALSE},
                 logViolations : BOOLEAN,
                 rejectOnViolation : {FALSE}]
  /\ rulesCache = initializeRules(config.customRules)
  /\ compiledRulesCache = EmptyMap
  /\ InitHost
  /\ ret = [op |-> "new"]
  /\ InitTransport
  /\ InitSecond
  /\ calls = 0

NextKeys ==
  \/ \E data \in EngineData : \E rules \in KeyRuleLists : Sanitize(data, rules)
  \/ AddCustomRule(CommaRule)

SpecKeys == InitKeys /\ [][NextKeys]_vars

\* the rules registered under the names of a list
NamedBy(rules) == {rulesCache[n] : n \in Range(rules) \cap DOMAIN rulesCache}

\* C30: two rule-name lists that name different sets of rules share no cache
\* entry: a sanitize call, whatever lists were used before it and also when
\* a registered name holds a comma, applies exactly the set of rules its own
\* list names.
C30_NoSharedEntry ==
  ret.op = "sanitize" => Range(ret.applied) = NamedBy(ret.rules)

=============================================================================
